---------------------------- MODULE Spec2Model ----------------------------
(***************************************************************************)
(* A model of the gradian card-game server: the engine manager, the        *)
(* per-game engine loop (src/gradian/engine.py), the connection stand-in   *)
(* used by the tests (src/tests/test_engine.py, MockWebSocket) and the     *)
(* modules: the test suite's MockModule and modules that may answer every  *)
(* engine message with any of a set of module messages.                    *)
(*                                                                         *)
(* One engine task is modelled at a time: a new game is created only once  *)
(* the previous engine task has stopped.  Map entries and join queues of   *)
(* earlier games stay in the manager state.                                *)
(***************************************************************************)
EXTENDS Integers, Sequences, FiniteSets, TLC

\* ------------------------------------------------------------------ bounds
MaxConns == 2        \* connections the transport ever accepts
MaxGames == 2        \* create requests the manager ever serves
MaxInFlight == 2     \* frames and closes not yet received, all in all
MaxPossLen == 2      \* length of the possibility lists drawn for validation

Conns == 0 .. (MaxConns - 1)
GameIds == 0 .. MaxGames           \* ids a join request may name
PlayerIds == 0 .. (MaxConns - 1)   \* ids the engine can hand out
NoConn == -1

\* ------------------------------------------------- actions and possibilities
NextAction == [type |-> "next"]
SelectCardAction(c) == [type |-> "select", card_id |-> c]
SelectCollectionAction(c) == [type |-> "select-coll", collection_id |-> c]
AgainstCardAction(s, a) ==
    [type |-> "against", select_card_id |-> s, against_card_id |-> a]
WildCardAction(c, t) == [type |-> "wild", card_id |-> c, type_id |-> t]

NextPossibleAction == [type |-> "next"]
SelectCardPossibleAction(C) == [type |-> "select", card_ids |-> C]
SelectCollectionPossibleAction(C) ==
    [type |-> "select-coll", collection_ids |-> C]
AgainstCardPossibleAction(s, A) ==
    [type |-> "against", select_card_id |-> s, against_card_ids |-> A]
WildCardPossibleAction(c, T) == [type |-> "wild", card_id |-> c, type_ids |-> T]

\* One test of the validation loop's body: does possibility pa admit action a?
\* (MatchEntryNoSelectId: the variant that forgets to compare the select card.)
MatchEntryNoSelectId(a, pa) ==
    CASE a.type = "next" -> pa.type = "next"
      [] a.type = "select" -> pa.type = "select" /\ a.card_id \in pa.card_ids
      [] a.type = "select-coll" ->
            pa.type = "select-coll" /\ a.collection_id \in pa.collection_ids
      [] a.type = "against" ->
            pa.type = "against" /\ a.against_card_id \in pa.against_card_ids
      [] a.type = "wild" ->
            pa.type = "wild" /\ a.card_id = pa.card_id
                             /\ a.type_id \in pa.type_ids
      [] OTHER -> FALSE

MatchEntry(a, pa) ==
    CASE a.type = "next" -> pa.type = "next"
      [] a.type = "select" -> pa.type = "select" /\ a.card_id \in pa.card_ids
      [] a.type = "select-coll" ->
            pa.type = "select-coll" /\ a.collection_id \in pa.collection_ids
      [] a.type = "against" ->
            pa.type = "against" /\ a.select_card_id = pa.select_card_id
                                /\ a.against_card_id \in pa.against_card_ids
      [] a.type = "wild" ->
            pa.type = "wild" /\ a.card_id = pa.card_id
                             /\ a.type_id \in pa.type_ids
      [] OTHER -> FALSE

\* The loop of engine.py 599-639: can_perform starts False and the scan stops
\* at the first possibility that admits the action.
RECURSIVE can_perform(_, _)
can_perform(a, possible_actions) ==
    IF possible_actions = <<>> THEN FALSE
    ELSE IF MatchEntry(a, Head(possible_actions)) THEN TRUE
    ELSE can_perform(a, Tail(possible_actions))

\* ----------------------------------------------------------------- gracts
PossibleActionsGract(L) == [type |-> "possible-actions", possible_actions |-> L]
ShowTypeGract(t, n) == [type |-> "show-type", type_id |-> t, type_name |-> n]
ShowCollectionGract(c, p, d) ==
    [type |-> "show-collection", collection_id |-> c, player_id |-> p,
     collection_display |-> d]
ShowCardGract(c, t, k) ==
    [type |-> "show-card", card_id |-> c, type_id |-> t, collection_id |-> k]

\* The assignment loop of engine.py 672-674: every possible-actions gract of
\* the list overwrites the player's list, so the last one stays.
\* (InstallFirst: the variant that stops at the first one.)
RECURSIVE InstallFirst(_, _)
InstallFirst(gract_list, current) ==
    IF gract_list = <<>> THEN current
    ELSE IF Head(gract_list).type = "possible-actions"
         THEN Head(gract_list).possible_actions
         ELSE InstallFirst(Tail(gract_list), current)

RECURSIVE InstallPossible(_, _)
InstallPossible(gract_list, current) ==
    IF gract_list = <<>> THEN current
    ELSE InstallPossible(Tail(gract_list),
            IF Head(gract_list).type = "possible-actions"
            THEN Head(gract_list).possible_actions
            ELSE current)

\* ------------------------------------------------------- module messages
Open == [open |-> TRUE]
Closed(reason) == [open |-> FALSE, reason |-> reason]

EmptyModMsg == [type |-> "empty"]
ChangeStateModMsg(j, s) ==
    [type |-> "change-state", join_mode |-> j, start_mode |-> s]
EndRoundModMsg(reason) == [type |-> "end-round", reason |-> reason]
EndGameModMsg(reason) == [type |-> "end-game", reason |-> reason]
GractModMsg(lists) == [type |-> "gract", gract_lists |-> lists]
UnknownModMsg == [type |-> "unknown"]     \* e.g. a module returning None

\* ------------------------------------------------------- engine messages
InitEngMsg == [type |-> "init"]
PlayerJoinEngMsg(p, n) == [type |-> "join", player_id |-> p, player_name |-> n]
PlayerLeaveEngMsg(p) == [type |-> "leave", player_id |-> p]
StartRoundEngMsg(p) == [type |-> "start", player_id |-> p]
PlayerActionEngMsg(p, a) == [type |-> "action", player_id |-> p, action |-> a]

\* ------------------------------------------------------------ wire frames
\* client to server
IntroFrame == [type |-> "intro", name |-> "n"]
StartFrame == [type |-> "start-round"]
ActionFrame(a) == [type |-> "action", action |-> a]
BadFrame == [type |-> "bad"]              \* any frame parse_response refuses
ClosedMark == [type |-> "closed"]         \* the None the mock puts on close

\* server to client
send_intro(game_id, player_id) ==
    [type |-> "intro", game_id |-> game_id, player_id |-> player_id]
send_gracts(gracts) == [type |-> "gract-list", gract_list |-> gracts]
send_end_round(reason) == [type |-> "end-round", reason |-> reason]
send_end_game(reason) == [type |-> "end-game", reason |-> reason]
send_error(reason) == [type |-> "error", reason |-> reason]

\* WsWrapper.recv: the message a frame is turned into.  Frames that are not
\* an intro, a start-round or an action yield WsCloseMsg.
WsCloseMsg == [type |-> "close"]
recv(frame) ==
    IF frame.type \in {"intro", "start-round", "action"} THEN frame
    ELSE WsCloseMsg

\* ------------------------------------------------------------ the modules
\* MockModule of the test suite (src/tests/test_engine.py 50-107).
MockPossible ==
    << NextPossibleAction,
       SelectCollectionPossibleAction({0, 1}),
       SelectCardPossibleAction({0}),
       AgainstCardPossibleAction(1, {0}),
       WildCardPossibleAction(2, {2}) >>

MockRoundStart ==
    << ShowTypeGract(0, "a card"), ShowTypeGract(1, "wild 1"),
       ShowTypeGract(2, "wild 2"),
       ShowCollectionGract(0, 0, "hand"), ShowCollectionGract(1, -1, "spread"),
       ShowCollectionGract(2, -1, "stack"),
       ShowCardGract(0, 0, 0), ShowCardGract(1, 0, 0), ShowCardGract(2, 0, 0) >>

\* (SimpleGractListsAll: the variant that yields the empty lists too.)
SimpleGractListsAll(pairs) == pairs

\* SimpleGractLists.__iter__: the (player, list) pairs with a non-empty list.
\* A GractModMsg holds the lists of all players of the bundle; the engine
\* reads them through this iteration.
RECURSIVE SimpleGractLists(_)
SimpleGractLists(pairs) ==
    IF pairs = <<>> THEN <<>>
    ELSE IF Len(Head(pairs)[2]) # 0
         THEN <<Head(pairs)>> \o SimpleGractLists(Tail(pairs))
         ELSE SimpleGractLists(Tail(pairs))

\* MockModule.process_msg: the answer and the module's next player count.
MockProcess(count, msg) ==
    CASE msg.type = "init" ->
            [resp |-> ChangeStateModMsg(Open, Closed("2 players required")),
             players |-> count]
      [] msg.type = "join" ->
            [resp |-> IF count + 1 = 2
                      THEN ChangeStateModMsg(Closed("2 players max"), Open)
                      ELSE EmptyModMsg,
             players |-> count + 1]
      [] msg.type = "start" ->
            [resp |-> GractModMsg(
                        << <<0, MockRoundStart
                                \o <<PossibleActionsGract(MockPossible)>> >>,
                           <<1, MockRoundStart>> >>),
             players |-> count]
      [] msg.type = "action" ->
            [resp |-> IF msg.action.type = "wild"
                      THEN EndRoundModMsg("wild played")
                      ELSE GractModMsg(
                            << <<0, <<PossibleActionsGract(MockPossible)>> >>,
                               <<1, <<>> >> >>),
             players |-> count]
      [] msg.type = "leave" ->
            [resp |-> EndGameModMsg("player left"), players |-> count]
      [] OTHER -> [resp |-> UnknownModMsg, players |-> count]

\* ------------------------------------------------------- the rummy module
\* src/backend-game/modules/module/rummy.py.  A card id is suit * 100 + rank
\* with suit 0..3 and rank 1..13; id_stack lists the 52 ids suit by suit.
id_stack ==
    [i \in 1 .. 52 |-> ((i - 1) \div 13) * 100 + ((i - 1) % 13) + 1]

\* The name, the description and the picture of a card type are functions of
\* its id and are left out; type 0 is the unknown (face-down) type.
card_types ==
    <<ShowTypeGract(0, 0)>>
        \o [i \in 1 .. 52 |-> ShowTypeGract(id_stack[i], id_stack[i])]

MoveCardGract(c, k) == [type |-> "move-card", card_id |-> c, collection_id |-> k]
RevealCardGract(o, n, t) ==
    [type |-> "reveal-card", old_card_id |-> o, new_card_id |-> n,
     new_type_id |-> t]

\* Python's None in a hand; no card has the id 0.
None == 0

\* list.sort() of a list of distinct card ids
RECURSIVE SortHand(_)
SortHand(S) ==
    IF S = {} THEN <<>>
    ELSE LET m == CHOOSE x \in S : \A y \in S : x <= y
         IN  <<m>> \o SortHand(S \ {m})

Range(s) == {s[i] : i \in 1 .. Len(s)}

\* rummy.py 183-201, the body of `for i in range(0, 5)` for one i (counted
\* from 1 here): when three or more cards from position i on have the rank
\* of hand[i], all of them are struck out.
RankStep(hand, i) ==
    IF hand[i] = None THEN hand
    ELSE LET value == hand[i] % 100
             same == {j \in i .. Len(hand) :
                         hand[j] # None /\ hand[j] % 100 = value}
         IN  IF Cardinality(same) >= 3
             THEN [j \in 1 .. Len(hand) |-> IF j \in same THEN None ELSE hand[j]]
             ELSE hand

RECURSIVE RankPass(_, _)
RankPass(hand, i) ==
    IF i > 5 THEN hand ELSE RankPass(RankStep(hand, i), i + 1)

\* rummy.py 203-226, the order check from position i on.  st holds the
\* hand, start_idx, end_idx and prev_card (positions counted from 1, 0 for
\* None), and failed for the early `return False`.
RECURSIVE OrderPass(_, _)
OrderPass(st, i) ==
    IF st.failed \/ i > Len(st.hand) THEN st
    ELSE IF st.hand[i] = None THEN OrderPass(st, i + 1)
    ELSE IF st.start_idx = 0
    THEN OrderPass([st EXCEPT !.end_idx = i, !.start_idx = i,
                              !.prev_card = st.hand[i]], i + 1)
    ELSE IF st.hand[i] # st.prev_card + 1 \/ (i - st.start_idx) = 4
    THEN IF (i - st.start_idx) < 3
         THEN [st EXCEPT !.failed = TRUE]
         ELSE OrderPass(
                [hand |-> [j \in 1 .. Len(st.hand) |->
                             IF j >= st.start_idx /\ j < i
                             THEN None ELSE st.hand[j]],
                 start_idx |-> i, end_idx |-> i,
                 prev_card |-> st.hand[i], failed |-> FALSE], i + 1)
    ELSE OrderPass([st EXCEPT !.end_idx = i, !.prev_card = st.hand[i]], i + 1)

\* rummy.py 176-239
check_hand(cards) ==
    LET sorted == SortHand(Range(cards))
        ranked == RankPass(sorted, 1)
        st == OrderPass([hand |-> ranked, start_idx |-> 0, end_idx |-> 0,
                         prev_card |-> 0, failed |-> FALSE], 1)
        last == IF st.start_idx # 0 /\ (st.end_idx - st.start_idx + 1) >= 3
                THEN [j \in 1 .. Len(st.hand) |->
                        IF j >= st.start_idx /\ j <= st.end_idx
                        THEN None ELSE st.hand[j]]
                ELSE st.hand
    IN  /\ ~st.failed
        /\ \A j \in 1 .. Len(last) : last[j] = None

\* random.shuffle: two of the orders it can produce.
RECURSIVE Reverse(_)
Reverse(s) == IF s = <<>> THEN <<>> ELSE Append(Reverse(Tail(s)), Head(s))

random_shuffle(s) == {s, Reverse(s)}

RECURSIVE Concat(_)
Concat(ss) == IF ss = <<>> THEN <<>> ELSE Head(ss) \o Concat(Tail(ss))

\* RummyModule.__init__ (rummy.py 32-36): players is the dict of the
\* module's Player objects, kept as the sequence of its values in insertion
\* order; player_order, current_idx and current_stage exist from the first
\* start-round on.
RummyModule ==
    [kind |-> "rummy", players |-> <<>>, central_stack |-> <<>>,
     discard_stack |-> <<>>, player_order |-> <<>>, current_idx |-> 0,
     current_stage |-> 0]

\* module.create_module()
create_module(kind) ==
    IF kind = "rummy" THEN RummyModule ELSE [kind |-> kind, players |-> 0]

\* An exception raised inside process_msg.
Raise(error) == [type |-> "raise", error |-> error]

\* The lists of a SimpleGractLists (common.py 307-322) as the sequence of
\* (player id, list) pairs in the order of the dict; lists[p] is the list
\* built for player p.
RummyIds(inst) == {inst.players[k].id : k \in 1 .. Len(inst.players)}

RummyLists(inst, lists) ==
    [k \in 1 .. Len(inst.players) |->
        <<inst.players[k].id, lists[inst.players[k].id]>>]

\* rummy.py 60-105: start-round with the shuffled deck clone.
RummyStart(inst, clone) ==
    LET n == Len(inst.players)
        dealt == [k \in 1 .. n |->
                    [inst.players[k] EXCEPT
                        !.cards = SubSeq(clone, 7 * (k - 1) + 1, 7 * k)]]
        rest == SubSeq(clone, 7 * n + 1, Len(clone))
        discard_stack == <<rest[Len(rest)]>>
        central_stack == SubSeq(rest, 1, Len(rest) - 1)
        current_player_id == dealt[1].id
        list_of(q) ==
            card_types
            \o <<ShowCollectionGract(-1, None, "stack"),
                 ShowCollectionGract(-2, None, "stack")>>
            \o [k \in 1 .. n |->
                  ShowCollectionGract(dealt[k].id, dealt[k].id, "hand")]
            \o <<ShowCardGract(central_stack[Len(central_stack)], 0, -1),
                 ShowCardGract(discard_stack[1], discard_stack[1], -2)>>
            \o Concat([k \in 1 .. n |->
                  [i \in 1 .. 7 |->
                      IF dealt[k].id = q
                      THEN ShowCardGract(dealt[k].cards[i], dealt[k].cards[i],
                                         dealt[k].id)
                      ELSE ShowCardGract(dealt[k].cards[i], 0, dealt[k].id)]])
            \o (IF q = current_player_id
                THEN <<PossibleActionsGract(
                         <<SelectCollectionPossibleAction({-1, -2})>>)>>
                ELSE <<>>)
    IN  [resp |-> GractModMsg(RummyLists(inst,
                    [q \in RummyIds(inst) |-> list_of(q)])),
         inst |-> [inst EXCEPT !.players = dealt,
                               !.discard_stack = discard_stack,
                               !.central_stack = central_stack,
                               !.player_order = [k \in 1 .. n |-> dealt[k].id],
                               !.current_idx = 0,
                               !.current_stage = 0]]

\* The position of player id in the module's players.
RummyAt(inst, id) == CHOOSE k \in 1 .. Len(inst.players) : inst.players[k].id = id

\* rummy.py 113-138: the draw stage.  A pop from an empty stack and a
\* ShowCardGract for the top of an emptied central stack raise.
RummyDraw(inst, msg) ==
    LET current_player_id == inst.player_order[inst.current_idx + 1]
        at == RummyAt(inst, current_player_id)
        stack == IF msg.action.collection_id = -1 THEN inst.central_stack
                 ELSE inst.discard_stack
        card_id == IF msg.action.collection_id \in {-1, -2}
                   THEN stack[Len(stack)] ELSE None
        popped == SubSeq(stack, 1, Len(stack) - 1)
        cards == Append(inst.players[at].cards, card_id)
        list_of(q) ==
            (IF msg.action.collection_id = -1
             THEN <<ShowCardGract(popped[Len(popped)], 0, -1)>> ELSE <<>>)
            \o <<MoveCardGract(card_id, current_player_id)>>
            \o (IF q = current_player_id
                THEN <<RevealCardGract(card_id, card_id, card_id),
                       PossibleActionsGract(
                         <<SelectCardPossibleAction(Range(cards))>>)>>
                ELSE <<>>)
    IN  IF msg.action.collection_id \in {-1, -2} /\ stack = <<>>
        THEN [resp |-> Raise("IndexError"), inst |-> inst]
        ELSE IF msg.action.collection_id = -1 /\ popped = <<>>
        THEN [resp |-> Raise("TypeError"),
              inst |-> [inst EXCEPT !.central_stack = popped]]
        ELSE [resp |-> GractModMsg(RummyLists(inst,
                    [q \in RummyIds(inst) |-> list_of(q)])),
              inst |-> [inst EXCEPT
                          !.central_stack =
                              IF msg.action.collection_id = -1
                              THEN popped ELSE @,
                          !.discard_stack =
                              IF msg.action.collection_id = -2
                              THEN popped ELSE @,
                          !.players[at].cards = cards,
                          !.current_stage = 1]]

\* list comprehension `[card for card in player.cards if card != card_id]`
RECURSIVE Remove(_, _)
Remove(cards, card_id) ==
    IF cards = <<>> THEN <<>>
    ELSE IF Head(cards) = card_id THEN Remove(Tail(cards), card_id)
    ELSE <<Head(cards)>> \o Remove(Tail(cards), card_id)

\* rummy.py 140-173: the discard stage.
RummyDiscard(inst, msg) ==
    LET current_player_id == inst.player_order[inst.current_idx + 1]
        at == RummyAt(inst, current_player_id)
        cards == Remove(inst.players[at].cards, msg.action.card_id)
        current_idx == (inst.current_idx + 1) % Len(inst.player_order)
        next_player_id == inst.player_order[current_idx + 1]
        list_of(q) ==
            <<MoveCardGract(msg.action.card_id, -2),
              RevealCardGract(msg.action.card_id, msg.action.card_id,
                              msg.action.card_id)>>
            \o (IF q = next_player_id
                THEN <<PossibleActionsGract(
                         <<SelectCollectionPossibleAction({-1, -2})>>)>>
                ELSE <<>>)
    IN  IF check_hand(cards)
        THEN [resp |-> EndRoundModMsg("won"),
              inst |-> [inst EXCEPT
                          !.central_stack = <<>>,
                          !.discard_stack = <<>>,
                          !.players = [k \in 1 .. Len(inst.players) |->
                                         [inst.players[k] EXCEPT !.cards = <<>>]]]]
        ELSE [resp |-> GractModMsg(RummyLists(inst,
                    [q \in RummyIds(inst) |-> list_of(q)])),
              inst |-> [inst EXCEPT
                          !.players[at].cards = cards,
                          !.discard_stack = Append(@, msg.action.card_id),
                          !.current_idx = current_idx,
                          !.current_stage = 0]]

\* RummyModule.process_msg (rummy.py 42-173): the set of the (answer, next
\* module state) pairs.
RummyProcess(inst, msg) ==
    CASE msg.type = "init" ->
            {[resp |-> ChangeStateModMsg(Open,
                          Closed("at least 2 players required")),
              inst |-> inst]}
      [] msg.type = "join" ->
            LET joined == [inst EXCEPT !.players =
                              Append(@, [id |-> msg.player_id,
                                         name |-> msg.player_name,
                                         cards |-> <<>>])]
            IN  {[resp |-> IF Len(joined.players) >= 4
                           THEN ChangeStateModMsg(
                                  Closed("No more than 4 players"), Open)
                           ELSE IF Len(joined.players) >= 2
                           THEN ChangeStateModMsg(Open, Open)
                           ELSE EmptyModMsg,
                  inst |-> joined]}
      [] msg.type = "leave" ->
            {[resp |-> EndGameModMsg("player left"), inst |-> inst]}
      [] msg.type = "start" ->
            {RummyStart(inst, clone) : clone \in random_shuffle(id_stack)}
      [] msg.type = "action" ->
            IF inst.player_order[inst.current_idx + 1] # msg.player_id
            THEN {[resp |-> Raise("invalid op"), inst |-> inst]}
            ELSE IF inst.current_stage = 0
            THEN IF msg.action.type # "select-coll"
                 THEN {[resp |-> Raise("invalid op"), inst |-> inst]}
                 ELSE {RummyDraw(inst, msg)}
            ELSE IF msg.action.type # "select"
                 THEN {[resp |-> Raise("invalid op"), inst |-> inst]}
                 ELSE {RummyDiscard(inst, msg)}

\* Module.process_msg is abstract (src/gradian/module/module_message.py lists
\* what it may return), so nothing is assumed about the order of a module's
\* answers.  Two kinds of module are drawn at create: "modes" may answer any
\* message with any message that changes the modes, the round or the game,
\* "gracts" with any of a few gract bundles or the end of the round.
NextOnly == << NextPossibleAction >>
OtherPossible == << SelectCardPossibleAction({1}) >>
UnknownPlayer == 9

AnyBundles ==
    { << <<p, <<PossibleActionsGract(NextOnly)>> >>, <<1 - p, <<>> >> >> :
        p \in {0, 1} }
    \cup
    { << <<0, <<PossibleActionsGract(NextOnly),
                PossibleActionsGract(OtherPossible)>> >> >>,
      << <<0, <<PossibleActionsGract(OtherPossible)>> >>,
         <<1, <<ShowCardGract(0, 0, 0)>> >> >>,
      << <<0, <<PossibleActionsGract(OtherPossible)>> >>,
         <<UnknownPlayer, <<ShowCardGract(0, 0, 0)>> >> >> }

AnyModes(reason) == {Open, Closed(reason)}

ModuleKinds == {"modes", "gracts"}

\* A third kind, "stray", may also answer with a value that is no ModMsg
\* variant at all; it is used by a specification of its own.
AnyResponses(kind) ==
    IF kind = "modes"
    THEN {EmptyModMsg, EndRoundModMsg("round over"), EndGameModMsg("game over")}
         \cup {ChangeStateModMsg(j, s) :
                 j \in AnyModes("join closed"), s \in AnyModes("start closed")}
    ELSE IF kind = "stray"
    THEN {EmptyModMsg, ChangeStateModMsg(Open, Open), UnknownModMsg}
    ELSE {EmptyModMsg, ChangeStateModMsg(Open, Open),
          EndRoundModMsg("round over")}
         \cup {GractModMsg(b) : b \in AnyBundles}

\* instance.process_msg(msg): the set of (answer, next module state) pairs.
process_msg(inst, msg) ==
    IF inst.kind = "rummy" THEN RummyProcess(inst, msg)
    ELSE IF inst.kind = "mock"
    THEN {[resp |-> MockProcess(inst.players, msg).resp,
           inst |-> [inst EXCEPT !.players =
                                   MockProcess(inst.players, msg).players]]}
    ELSE {[resp |-> r, inst |-> inst] : r \in AnyResponses(inst.kind)}

\* ------------------------------------------------------------------ state
VARIABLES
    next_engine_id,   \* EngineManager.next_engine_id
    engines,          \* EngineManager.engines: the ids that have a queue
    queue,            \* the join queue of every id ever created
    routed,           \* per connection: "fresh", "queued" or "nogame"
    inbox,            \* per connection: client frames sent, not yet received
    closed,           \* per connection: has it been closed
    pc,               \* where the engine task is
    engine_id,        \* the id argument of the engine task
    instance,         \* the module instance
    join_mode, start_mode, round_active, next_player_id,
    new_joins,        \* player id -> joining player record
    players,          \* player id -> player record
    player_tasks,     \* player ids that have a receive task
    cur_ws,           \* the connection taken from the queue, being introduced
    msgs,             \* the batch
    hist,             \* history per admitted player, see HistNew
    wire,             \* history per connection: the frames the server sent
    step              \* history: what the last step did

mgrVars == <<next_engine_id, engines, queue>>
connVars == <<routed, inbox, closed>>
engVars == <<pc, engine_id, instance, join_mode, start_mode, round_active,
             next_player_id, new_joins, players, player_tasks, cur_ws, msgs>>
vars == <<mgrVars, connVars, engVars, hist, wire, step>>

NoMsg == [type |-> "none"]
\* What a step records next to its effect:
\*   msg      the engine message a step of the batch loop handled; for a
\*            collecting pass that took a connection from the queue, what
\*            recv made of that connection's first frame
\*   renewed  the receive tasks a collecting pass created anew, which the
\*            tuple aws the engine waited on does not hold
\*   refused  the players whose frame a collecting pass drew and recv
\*            turned into WsCloseMsg
\*   seen     for a message of a batch, the start mode the engine had when
\*            the wait returned; not known when the steps since the wait
\*            were not all steps of the engine
NoRenewed == [queue |-> FALSE, players |-> {}]
NoSeen == [known |-> FALSE]
NoStep ==
    [op |-> "none", msg |-> NoMsg, called |-> FALSE, resp |-> NoMsg,
     sent |-> <<>>, closes |-> {}, flow |-> "none", renewed |-> NoRenewed,
     refused |-> {}, seen |-> NoSeen]

\* History kept for every connection, a summary of the frames the server has
\* sent on it so far:
\*   first   "none" while no frame was sent, then "intro" when the first
\*           frame was an intro and "other" when it was not
\*   intros  the number of intro frames sent, counted up to two
NoWire == [first |-> "none", intros |-> 0]

HeardOne(w, frame) ==
    [first |-> IF w.first # "none" THEN w.first
               ELSE IF frame.type = "intro" THEN "intro" ELSE "other",
     intros |-> IF frame.type = "intro" /\ w.intros < 2
                THEN w.intros + 1 ELSE w.intros]

RECURSIVE Heard(_, _)
Heard(w, sent) ==
    IF sent = <<>> THEN w
    ELSE Heard([w EXCEPT ![Head(sent)[1]] = HeardOne(@, Head(sent)[2])],
               Tail(sent))

\* Every step adds the frames it sent, as recorded in step, to the history.
WireStep == wire' = Heard(wire, step'.sent)

Player(id, name, ws) ==
    [id |-> id, name |-> name, ws |-> ws, possible_actions |-> <<>>]

EngineStopped == pc \in {"none", "exited", "crashed"}

Init ==
    /\ next_engine_id = 0
    /\ engines = {}
    /\ queue = [g \in {} |-> <<>>]
    /\ routed = [c \in Conns |-> "fresh"]
    /\ inbox = [c \in Conns |-> 0]
    /\ closed = [c \in Conns |-> FALSE]
    /\ pc = "none"
    /\ engine_id = -1
    /\ instance = [kind |-> "none", players |-> 0]
    /\ join_mode = Open
    /\ start_mode = Open
    /\ round_active = FALSE
    /\ next_player_id = 0
    /\ new_joins = [p \in {} |-> 0]
    /\ players = [p \in {} |-> 0]
    /\ player_tasks = {}
    /\ cur_ws = NoConn
    /\ msgs = <<>>
    /\ hist = [p \in {} |-> 0]
    /\ wire = [c \in Conns |-> NoWire]
    /\ step = NoStep

\* ------------------------------------------------------------ the manager
\* Connections are numbered in the order the transport accepts them.
NextConn(c) ==
    /\ routed[c] = "fresh"
    /\ \A d \in Conns : d < c => routed[d] # "fresh"

\* (CreateSameId: the variant that never advances the id counter.)
CreateSameId(c, kind) ==
    /\ NextConn(c)
    /\ next_engine_id < MaxGames
    /\ EngineStopped
    /\ queue' = [g \in DOMAIN queue \cup {next_engine_id} |->
                    IF g = next_engine_id THEN <<c>> ELSE queue[g]]
    /\ engines' = engines \cup {next_engine_id}
    /\ next_engine_id' = next_engine_id
    /\ routed' = [routed EXCEPT ![c] = "queued"]
    /\ pc' = "init"
    /\ engine_id' = next_engine_id
    /\ instance' = create_module(kind)
    /\ join_mode' = Open
    /\ start_mode' = Open
    /\ round_active' = FALSE
    /\ next_player_id' = 0
    /\ new_joins' = [p \in {} |-> 0]
    /\ players' = [p \in {} |-> 0]
    /\ player_tasks' = {}
    /\ cur_ws' = NoConn
    /\ msgs' = <<>>
    /\ hist' = [p \in {} |-> 0]
    /\ step' = [NoStep EXCEPT !.op = "create"]
    /\ WireStep
    /\ UNCHANGED <<inbox, closed>>

\* EngineManager.create, with module.create_module() of the new engine task.
Create(c, kind) ==
    /\ NextConn(c)
    /\ next_engine_id < MaxGames
    /\ EngineStopped
    /\ queue' = [g \in DOMAIN queue \cup {next_engine_id} |->
                    IF g = next_engine_id THEN <<c>> ELSE queue[g]]
    /\ engines' = engines \cup {next_engine_id}
    /\ next_engine_id' = next_engine_id + 1
    /\ routed' = [routed EXCEPT ![c] = "queued"]
    /\ pc' = "init"
    /\ engine_id' = next_engine_id
    /\ instance' = create_module(kind)
    /\ join_mode' = Open
    /\ start_mode' = Open
    /\ round_active' = FALSE
    /\ next_player_id' = 0
    /\ new_joins' = [p \in {} |-> 0]
    /\ players' = [p \in {} |-> 0]
    /\ player_tasks' = {}
    /\ cur_ws' = NoConn
    /\ msgs' = <<>>
    /\ hist' = [p \in {} |-> 0]
    /\ step' = [NoStep EXCEPT !.op = "create"]
    /\ WireStep
    /\ UNCHANGED <<inbox, closed>>

\* EngineManager.join
\* (JoinSilently: the variant that answers an unknown game with nothing.)
JoinSilently(game_id, c) ==
    /\ NextConn(c)
    /\ IF game_id \notin engines
       THEN /\ routed' = [routed EXCEPT ![c] = "nogame"]
            /\ step' = [NoStep EXCEPT !.op = "join"]
            /\ UNCHANGED queue
       ELSE /\ routed' = [routed EXCEPT ![c] = "queued"]
            /\ queue' = [queue EXCEPT ![game_id] = Append(@, c)]
            /\ step' = [NoStep EXCEPT !.op = "join"]
    /\ WireStep
    /\ UNCHANGED <<next_engine_id, engines, inbox, closed, engVars, hist>>

Join(game_id, c) ==
    /\ NextConn(c)
    /\ IF game_id \notin engines
       THEN /\ routed' = [routed EXCEPT ![c] = "nogame"]
            /\ step' = [NoStep EXCEPT !.op = "join",
                          !.sent = << <<c, send_error("game does not exist")>> >>]
            /\ UNCHANGED queue
       ELSE /\ routed' = [routed EXCEPT ![c] = "queued"]
            /\ queue' = [queue EXCEPT ![game_id] = Append(@, c)]
            /\ step' = [NoStep EXCEPT !.op = "join"]
    /\ WireStep
    /\ UNCHANGED <<next_engine_id, engines, inbox, closed, engVars, hist>>

\* ------------------------------------------------------------- the clients
ClientFrames == {IntroFrame, StartFrame, BadFrame, ActionFrame(NextAction)}
MockClientFrames ==
    ClientFrames \cup {ActionFrame(SelectCardAction(1)),
                       ActionFrame(WildCardAction(2, 2))}

RECURSIVE Sum(_, _)
Sum(f, S) ==
    IF S = {} THEN 0
    ELSE LET x == CHOOSE y \in S : TRUE IN f[x] + Sum(f, S \ {x})

\* The connections the engine task can still receive from.
Owned(c) ==
    /\ ~EngineStopped
    /\ \/ \E i \in 1 .. Len(queue[engine_id]) : queue[engine_id][i] = c
       \/ c = cur_ws
       \/ \E p \in DOMAIN new_joins : new_joins[p].ws = c
       \/ \E p \in DOMAIN players : players[p].ws = c

\* The content of a frame is first looked at when the engine receives it, so
\* a connection's inbox is kept as the number of frames in flight and the
\* frame is drawn at the receive.  A close comes after the frames in flight.
InFlight ==
    Sum([c \in Conns |-> inbox[c] + IF closed[c] /\ Owned(c) THEN 1 ELSE 0],
        Conns)

\* The engine task runs from one suspension to the next without a look at
\* the transport; frames arriving meanwhile are modelled as arriving while it
\* is suspended.
Suspended == pc \in {"wait", "intro"}

\* MockPlayer.send of a text frame
ClientSend(c) ==
    /\ Owned(c)
    /\ Suspended
    /\ ~closed[c]
    /\ InFlight < MaxInFlight
    /\ inbox' = [inbox EXCEPT ![c] = @ + 1]
    /\ step' = [NoStep EXCEPT !.op = "client"]
    /\ WireStep
    /\ UNCHANGED <<mgrVars, routed, closed, engVars, hist>>

\* MockPlayer.send(None): the client goes away
ClientClose(c) ==
    /\ Owned(c)
    /\ Suspended
    /\ ~closed[c]
    /\ InFlight < MaxInFlight
    /\ closed' = [closed EXCEPT ![c] = TRUE]
    /\ step' = [NoStep EXCEPT !.op = "client"]
    /\ WireStep
    /\ UNCHANGED <<mgrVars, routed, inbox, engVars, hist>>

\* WebSocket close as the engine uses it: idempotent.
CloseCl(cl, c) == [cl EXCEPT ![c] = TRUE]

\* MockWebSocket.recv: a receive completes when a frame is in flight or the
\* connection is closed; it yields the frame, or the end of the stream.
Ready(box, cl, c) == box[c] > 0 \/ cl[c]
Received(box, c, frame) == IF box[c] > 0 THEN frame ELSE ClosedMark

\* -------------------------------------------------------------- the engine
RECURSIVE SortedSeq(_)
SortedSeq(S) ==
    IF S = {} THEN <<>>
    ELSE LET m == CHOOSE x \in S : \A y \in S : x <= y
         IN  <<m>> \o SortedSeq(S \ {m})

Without(f, k) == [x \in (DOMAIN f) \ {k} |-> f[x]]
With(f, k, v) == [x \in (DOMAIN f) \cup {k} |-> IF x = k THEN v ELSE f[x]]

\* (EngineInitAlwaysRuns: the variant that goes on whatever the probe
\* returns.)
EngineInitAlwaysRuns ==
    /\ pc = "init"
    /\ \E r \in process_msg(instance, InitEngMsg) :
         /\ instance' = r.inst
         /\ IF r.resp.type # "change-state"
            THEN UNCHANGED <<join_mode, start_mode>>
            ELSE /\ join_mode' = r.resp.join_mode
                 /\ start_mode' = r.resp.start_mode
         /\ pc' = "wait"
         /\ UNCHANGED engines
         /\ step' = [NoStep EXCEPT !.op = "init", !.msg = InitEngMsg,
                       !.called = TRUE, !.resp = r.resp]
    /\ WireStep
    /\ UNCHANGED <<next_engine_id, queue, connVars, engine_id, round_active,
                   next_player_id, new_joins, players, player_tasks, cur_ws,
                   msgs, hist>>

\* engine.py 474-493: the init probe and the engine's local variables.
EngineInit ==
    /\ pc = "init"
    /\ \E r \in process_msg(instance, InitEngMsg) :
         /\ instance' = r.inst
         /\ IF r.resp.type # "change-state" \/ ~r.resp.join_mode.open
            THEN /\ engines' = engines \ {engine_id}
                 /\ pc' = "exited"
                 /\ UNCHANGED <<join_mode, start_mode>>
            ELSE /\ join_mode' = r.resp.join_mode
                 /\ start_mode' = r.resp.start_mode
                 /\ pc' = "wait"
                 /\ UNCHANGED engines
         /\ step' = [NoStep EXCEPT !.op = "init", !.msg = InitEngMsg,
                       !.called = TRUE, !.resp = r.resp]
    /\ WireStep
    /\ UNCHANGED <<next_engine_id, queue, connVars, engine_id, round_active,
                   next_player_id, new_joins, players, player_tasks, cur_ws,
                   msgs, hist>>

\* (DrainOneSkipsRefused: the variant that passes over a frame recv refuses
\* and leaves the connection open.)
DrainOneSkipsRefused(player_id, frames, acc) ==
    LET c == players[player_id].ws IN
    IF ~Ready(acc.inbox, acc.closed, c) THEN acc
    ELSE LET msg == recv(Received(acc.inbox, c, frames[player_id])) IN
         IF msg.type = "start-round"
         THEN [acc EXCEPT !.inbox[c] = @ - 1,
                 !.msgs = Append(@, StartRoundEngMsg(player_id))]
         ELSE IF msg.type = "action"
         THEN [acc EXCEPT !.inbox[c] = @ - 1,
                 !.msgs = Append(@, PlayerActionEngMsg(player_id, msg.action))]
         ELSE IF acc.inbox[c] > 0
         THEN [acc EXCEPT !.inbox[c] = @ - 1]
         ELSE [inbox |-> [acc.inbox EXCEPT ![c] = 0],
               closed |-> CloseCl(acc.closed, c),
               msgs |-> Append(acc.msgs, PlayerLeaveEngMsg(player_id))]

\* engine.py 518-549 for one player: a finished receive task becomes an
\* engine message; acc carries the inboxes, the close states and the batch,
\* frames[player_id] is the frame the client sent.  A task that ends in a
\* leave is not replaced: what is still in flight is never received.
DrainOne(player_id, frames, acc) ==
    LET c == players[player_id].ws IN
    IF ~Ready(acc.inbox, acc.closed, c) THEN acc
    ELSE LET msg == recv(Received(acc.inbox, c, frames[player_id])) IN
         IF msg.type = "start-round"
         THEN [acc EXCEPT !.inbox[c] = @ - 1,
                 !.msgs = Append(@, StartRoundEngMsg(player_id))]
         ELSE IF msg.type = "action"
         THEN [acc EXCEPT !.inbox[c] = @ - 1,
                 !.msgs = Append(@, PlayerActionEngMsg(player_id, msg.action))]
         ELSE [inbox |-> [acc.inbox EXCEPT ![c] = 0],
               closed |-> CloseCl(acc.closed, c),
               msgs |-> Append(acc.msgs, PlayerLeaveEngMsg(player_id))]

RECURSIVE Drain(_, _, _)
Drain(ids, frames, acc) ==
    IF ids = <<>> THEN acc
    ELSE Drain(Tail(ids), frames, DrainOne(Head(ids), frames, acc))

\* The players whose receive task has a frame to draw.
Senders == {p \in player_tasks : inbox[players[p].ws] > 0}

\* engine.py 542-549 with WsWrapper.recv: the players whose frame, drawn as
\* frames[p], is none that recv lets through to the engine.
Refused(frames) ==
    {p \in DOMAIN frames :
        recv(frames[p]).type \notin {"start-round", "action"}}

\* engine.py 516, 534-541: the receive tasks the collecting pass creates
\* anew: the queue task when it was done, and the task of every player whose
\* frame became a start-round or an action message.
Renewed(queue_done, batch) ==
    [queue |-> queue_done,
     players |-> {batch[i].player_id :
                    i \in {j \in 1 .. Len(batch) :
                              batch[j].type \in {"start", "action"}}}]

\* engine.py 499-504: the wait returns and the queue task has a connection.
WaitJoin ==
    /\ pc = "wait"
    /\ queue[engine_id] # <<>>
    /\ cur_ws' = Head(queue[engine_id])
    /\ queue' = [queue EXCEPT ![engine_id] = Tail(@)]
    /\ pc' = "intro"
    /\ step' = [NoStep EXCEPT !.op = "wait"]
    /\ WireStep
    /\ UNCHANGED <<next_engine_id, engines, connVars, engine_id, instance,
                   join_mode, start_mode, round_active, next_player_id,
                   new_joins, players, player_tasks, msgs, hist>>

\* (CollectJoinAnyFrame: the variant that takes every first frame for an
\* intro and closes the connection only when the stream has ended.)
CollectJoinAnyFrame(F) ==
    /\ pc = "intro"
    /\ Ready(inbox, closed, cur_ws)
    /\ \E first \in (IF inbox[cur_ws] > 0 THEN F ELSE {ClosedMark}),
          frames \in [Senders -> F] :
        LET msg == recv(Received(inbox, cur_ws, first))
            isIntro == inbox[cur_ws] > 0
            start == IF isIntro
                     THEN [inbox |-> [inbox EXCEPT ![cur_ws] = @ - 1],
                           closed |-> closed,
                           msgs |-> <<PlayerJoinEngMsg(next_player_id, "n")>>]
                     ELSE [inbox |-> [inbox EXCEPT ![cur_ws] = 0],
                           closed |-> CloseCl(closed, cur_ws),
                           msgs |-> <<>>]
            acc == Drain(SortedSeq(player_tasks), frames, start)
        IN  /\ next_player_id' = IF isIntro THEN next_player_id + 1
                                 ELSE next_player_id
            /\ new_joins' = IF isIntro
                            THEN With(new_joins, next_player_id,
                                      Player(next_player_id, "n", cur_ws))
                            ELSE new_joins
            /\ inbox' = acc.inbox
            /\ closed' = acc.closed
            /\ msgs' = acc.msgs
            /\ pc' = IF acc.msgs = <<>> THEN "wait" ELSE "process"
            /\ step' = [NoStep EXCEPT !.op = "collect", !.msg = msg,
                          !.renewed = Renewed(TRUE, acc.msgs),
                          !.refused = Refused(frames)]
    /\ cur_ws' = NoConn
    /\ WireStep
    /\ UNCHANGED <<mgrVars, routed, engine_id, instance, join_mode, start_mode,
                   round_active, players, player_tasks, hist>>

\* (CollectJoinSameId: the variant that never advances the id counter.)
CollectJoinSameId(F) ==
    /\ pc = "intro"
    /\ Ready(inbox, closed, cur_ws)
    /\ \E first \in (IF inbox[cur_ws] > 0 THEN F ELSE {ClosedMark}),
          frames \in [Senders -> F] :
        LET msg == recv(Received(inbox, cur_ws, first))
            isIntro == msg.type = "intro"
            start == IF isIntro
                     THEN [inbox |-> [inbox EXCEPT ![cur_ws] = @ - 1],
                           closed |-> closed,
                           msgs |-> <<PlayerJoinEngMsg(next_player_id, msg.name)>>]
                     ELSE [inbox |-> [inbox EXCEPT ![cur_ws] = 0],
                           closed |-> CloseCl(closed, cur_ws),
                           msgs |-> <<>>]
            acc == Drain(SortedSeq(player_tasks), frames, start)
        IN  /\ next_player_id' = next_player_id
            /\ new_joins' = IF isIntro
                            THEN With(new_joins, next_player_id,
                                      Player(next_player_id, msg.name, cur_ws))
                            ELSE new_joins
            /\ inbox' = acc.inbox
            /\ closed' = acc.closed
            /\ msgs' = acc.msgs
            /\ pc' = IF acc.msgs = <<>> THEN "wait" ELSE "process"
            /\ step' = [NoStep EXCEPT !.op = "collect", !.msg = msg,
                          !.renewed = Renewed(TRUE, acc.msgs),
                          !.refused = Refused(frames)]
    /\ cur_ws' = NoConn
    /\ WireStep
    /\ UNCHANGED <<mgrVars, routed, engine_id, instance, join_mode, start_mode,
                   round_active, players, player_tasks, hist>>

\* engine.py 505-549: the first frame of the new connection arrives; the
\* finished player tasks are then collected in the same pass.
CollectJoin(F) ==
    /\ pc = "intro"
    /\ Ready(inbox, closed, cur_ws)
    /\ \E first \in (IF inbox[cur_ws] > 0 THEN F ELSE {ClosedMark}),
          frames \in [Senders -> F] :
        LET msg == recv(Received(inbox, cur_ws, first))
            isIntro == msg.type = "intro"
            start == IF isIntro
                     THEN [inbox |-> [inbox EXCEPT ![cur_ws] = @ - 1],
                           closed |-> closed,
                           msgs |-> <<PlayerJoinEngMsg(next_player_id, msg.name)>>]
                     ELSE [inbox |-> [inbox EXCEPT ![cur_ws] = 0],
                           closed |-> CloseCl(closed, cur_ws),
                           msgs |-> <<>>]
            acc == Drain(SortedSeq(player_tasks), frames, start)
        IN  /\ next_player_id' = IF isIntro THEN next_player_id + 1
                                 ELSE next_player_id
            /\ new_joins' = IF isIntro
                            THEN With(new_joins, next_player_id,
                                      Player(next_player_id, msg.name, cur_ws))
                            ELSE new_joins
            /\ inbox' = acc.inbox
            /\ closed' = acc.closed
            /\ msgs' = acc.msgs
            /\ pc' = IF acc.msgs = <<>> THEN "wait" ELSE "process"
            /\ step' = [NoStep EXCEPT !.op = "collect", !.msg = msg,
                          !.renewed = Renewed(TRUE, acc.msgs),
                          !.refused = Refused(frames)]
    /\ cur_ws' = NoConn
    /\ WireStep
    /\ UNCHANGED <<mgrVars, routed, engine_id, instance, join_mode, start_mode,
                   round_active, players, player_tasks, hist>>

\* engine.py 499-549 when only player tasks are done.
CollectPlayers(F) ==
    /\ pc = "wait"
    /\ queue[engine_id] = <<>>
    /\ \E p \in player_tasks : Ready(inbox, closed, players[p].ws)
    /\ \E frames \in [Senders -> F] :
        LET acc == Drain(SortedSeq(player_tasks), frames,
                         [inbox |-> inbox, closed |-> closed, msgs |-> <<>>])
        IN  /\ inbox' = acc.inbox
            /\ closed' = acc.closed
            /\ msgs' = acc.msgs
            /\ step' = [NoStep EXCEPT !.op = "collect",
                          !.renewed = Renewed(FALSE, acc.msgs),
                          !.refused = Refused(frames)]
    /\ pc' = "process"
    /\ WireStep
    /\ UNCHANGED <<mgrVars, routed, engine_id, instance, join_mode, start_mode,
                   round_active, next_player_id, new_joins, players,
                   player_tasks, cur_ws, hist>>

\* What the first part of the batch loop (engine.py 559-644) does with one
\* message: the engine state it leaves, the frames it sends, the connections
\* it closes, and how control leaves the branch:
\*   "call"      control reaches instance.process_msg(msg) at line 646
\*   "continue"  the loop goes on with the next message
\*   "return"    the engine removes its entry and returns
\*   "crash"     an exception ends the engine task
Untouched ==
    [players |-> players, player_tasks |-> player_tasks,
     new_joins |-> new_joins, round_active |-> round_active,
     sent |-> <<>>, closes |-> {}, flow |-> "continue"]

\* engine.py 559-569.  The else branch has no continue: after the error
\* frame control falls through to the module call like the admitted case.
\* (OnPlayerJoinNoIntro: the variant that admits a joiner without the intro
\* frame.)
OnPlayerJoinNoIntro(msg) ==
    LET joiner == new_joins[msg.player_id] IN
    IF join_mode.open
    THEN [Untouched EXCEPT
            !.players = With(players, msg.player_id, joiner),
            !.new_joins = Without(new_joins, msg.player_id),
            !.player_tasks = player_tasks \cup {msg.player_id},
            !.flow = "call"]
    ELSE [Untouched EXCEPT
            !.new_joins = Without(new_joins, msg.player_id),
            !.sent = << <<joiner.ws, send_error(join_mode.reason)>> >>,
            !.flow = "call"]

OnPlayerJoin(msg) ==
    LET joiner == new_joins[msg.player_id] IN
    IF join_mode.open
    THEN [Untouched EXCEPT
            !.players = With(players, msg.player_id, joiner),
            !.new_joins = Without(new_joins, msg.player_id),
            !.sent = << <<joiner.ws, send_intro(engine_id, msg.player_id)>> >>,
            !.player_tasks = player_tasks \cup {msg.player_id},
            !.flow = "call"]
    ELSE [Untouched EXCEPT
            !.new_joins = Without(new_joins, msg.player_id),
            !.sent = << <<joiner.ws, send_error(join_mode.reason)>> >>,
            !.flow = "call"]

\* engine.py 571-578
\* (OnPlayerLeaveEndsRound: the variant in which a leave also ends the round.)
OnPlayerLeaveEndsRound(msg) ==
    [Untouched EXCEPT
        !.players = Without(players, msg.player_id),
        !.player_tasks = player_tasks \ {msg.player_id},
        !.round_active = FALSE,
        !.flow = IF DOMAIN Without(players, msg.player_id) = {}
                 THEN "return" ELSE "call"]

\* (OnPlayerLeaveAlwaysCalls: the variant that hands every leave to the
\* module.)
OnPlayerLeaveAlwaysCalls(msg) ==
    [Untouched EXCEPT
        !.players = Without(players, msg.player_id),
        !.player_tasks = player_tasks \ {msg.player_id},
        !.flow = "call"]

\* (OnPlayerLeaveKeepsTask: the variant that leaves the receive task of the
\* leaver in player_tasks.)
OnPlayerLeaveKeepsTask(msg) ==
    [Untouched EXCEPT
        !.players = Without(players, msg.player_id),
        !.flow = IF DOMAIN Without(players, msg.player_id) = {}
                 THEN "return" ELSE "call"]

\* (OnPlayerLeaveKeepsPlayer: the variant that leaves the leaver in the
\* players map.)
OnPlayerLeaveKeepsPlayer(msg) ==
    [Untouched EXCEPT
        !.player_tasks = player_tasks \ {msg.player_id},
        !.flow = IF DOMAIN Without(players, msg.player_id) = {}
                 THEN "return" ELSE "call"]

OnPlayerLeave(msg) ==
    [Untouched EXCEPT
        !.players = Without(players, msg.player_id),
        !.player_tasks = player_tasks \ {msg.player_id},
        !.flow = IF DOMAIN Without(players, msg.player_id) = {}
                 THEN "return" ELSE "call"]

\* engine.py 580-586.  The refusal reads start_mode.reason, an attribute
\* that Open does not have: with a round active and start_mode open the
\* read raises AttributeError.
\* (OnStartRoundAlways: the variant without the refusal.)
OnStartRoundAlways(msg) ==
    [Untouched EXCEPT !.round_active = TRUE, !.flow = "call"]

\* (OnStartRoundOnce: the variant in which a game has one round only: once a
\* round has ended, every start-round is refused.)
OnStartRoundOnce(msg) ==
    IF \E p \in DOMAIN hist : hist[p].round_ended
    THEN [Untouched EXCEPT
            !.sent = << <<players[msg.player_id].ws,
                          send_error("round over")>> >>]
    ELSE IF round_active \/ ~start_mode.open
    THEN IF start_mode.open
         THEN [Untouched EXCEPT !.flow = "crash"]
         ELSE [Untouched EXCEPT
                 !.sent = << <<players[msg.player_id].ws,
                               send_error(start_mode.reason)>> >>]
    ELSE [Untouched EXCEPT !.round_active = TRUE, !.flow = "call"]

OnStartRound(msg) ==
    IF round_active \/ ~start_mode.open
    THEN IF start_mode.open
         THEN [Untouched EXCEPT !.flow = "crash"]
         ELSE [Untouched EXCEPT
                 !.sent = << <<players[msg.player_id].ws,
                               send_error(start_mode.reason)>> >>]
    ELSE [Untouched EXCEPT !.round_active = TRUE, !.flow = "call"]

\* engine.py 591-644
\* (OnPlayerActionAnyRound: the variant without the round_active test;
\* OnPlayerActionLenient: the variant without the validation.)
OnPlayerActionAnyRound(msg) ==
    LET player == players[msg.player_id] IN
    IF ~can_perform(msg.action, player.possible_actions)
    THEN [Untouched EXCEPT
            !.sent = << <<player.ws, send_error("invalid action")>> >>,
            !.closes = {player.ws}]
    ELSE [Untouched EXCEPT !.flow = "call"]

OnPlayerActionLenient(msg) ==
    IF ~round_active THEN Untouched
    ELSE [Untouched EXCEPT !.flow = "call"]

\* (OnPlayerActionRefusesIdle: the variant that answers an action outside a
\* round with an error.)
OnPlayerActionRefusesIdle(msg) ==
    LET player == players[msg.player_id] IN
    IF ~round_active
    THEN [Untouched EXCEPT
            !.sent = << <<player.ws, send_error("no round")>> >>]
    ELSE IF ~can_perform(msg.action, player.possible_actions)
    THEN [Untouched EXCEPT
            !.sent = << <<player.ws, send_error("invalid action")>> >>,
            !.closes = {player.ws}]
    ELSE [Untouched EXCEPT !.flow = "call"]

OnPlayerAction(msg) ==
    LET player == players[msg.player_id] IN
    IF ~round_active THEN Untouched
    ELSE IF ~can_perform(msg.action, player.possible_actions)
    THEN [Untouched EXCEPT
            !.sent = << <<player.ws, send_error("invalid action")>> >>,
            !.closes = {player.ws}]
    ELSE [Untouched EXCEPT !.flow = "call"]

Before(msg) ==
    CASE msg.type = "join" -> OnPlayerJoin(msg)
      [] msg.type = "leave" -> OnPlayerLeave(msg)
      [] msg.type = "start" -> OnStartRound(msg)
      [] msg.type = "action" -> OnPlayerAction(msg)

\* engine.py 668-676: the lists of a bundle are handled in order; players[id]
\* of an id that is not in the map raises KeyError mid-way.
RECURSIVE Deliver(_, _)
Deliver(gract_lists, acc) ==
    IF gract_lists = <<>> THEN acc
    ELSE LET player_id == Head(gract_lists)[1]
             gract_list == Head(gract_lists)[2]
         IN  IF player_id \notin DOMAIN acc.players
             THEN [acc EXCEPT !.flow = "crash"]
             ELSE Deliver(Tail(gract_lists),
                    [acc EXCEPT
                       !.players[player_id].possible_actions =
                            InstallPossible(gract_list, @),
                       !.sent = Append(@, <<acc.players[player_id].ws,
                                            send_gracts(gract_list)>>)])

\* (BroadcastFirst: the variant that stops after the first player.)
BroadcastFirst(ids, pl, frame) ==
    IF ids = <<>> THEN <<>>
    ELSE << <<pl[Head(ids)].ws, frame>> >>

\* One frame to every player, in the order of the players map.
RECURSIVE Broadcast(_, _, _)
Broadcast(ids, pl, frame) ==
    IF ids = <<>> THEN <<>>
    ELSE << <<pl[Head(ids)].ws, frame>> >> \o Broadcast(Tail(ids), pl, frame)

\* (AfterKeepsModes: the variant that does not take over the modes of a
\* change-state.)
AfterKeepsModes(response, b) ==
    LET ids == SortedSeq(DOMAIN b.players)
        base == [join_mode |-> join_mode, start_mode |-> start_mode,
                 round_active |-> b.round_active, players |-> b.players,
                 sent |-> b.sent, closes |-> b.closes, flow |-> "continue"]
    IN  CASE response.type = "end-round" ->
                [base EXCEPT !.round_active = FALSE,
                   !.sent = @ \o Broadcast(ids, b.players,
                                           send_end_round(response.reason))]
          [] response.type = "end-game" ->
                [base EXCEPT
                   !.sent = @ \o Broadcast(ids, b.players,
                                           send_end_game(response.reason)),
                   !.closes = @ \cup {b.players[p].ws : p \in DOMAIN b.players},
                   !.flow = "return"]
          [] response.type = "gract" ->
                LET d == Deliver(SimpleGractLists(response.gract_lists),
                                 [players |-> b.players, sent |-> b.sent,
                                  flow |-> "continue"])
                IN  [base EXCEPT !.players = d.players, !.sent = d.sent,
                                 !.flow = d.flow]
          [] response.type = "raise" -> [base EXCEPT !.flow = "crash"]
          [] OTHER -> base

\* engine.py 646-676: the interpretation of the module's answer, continuing
\* from the state b left by the first part.  An exception raised by
\* process_msg at 646 is not caught: it ends the engine task.
After(response, b) ==
    LET ids == SortedSeq(DOMAIN b.players)
        base == [join_mode |-> join_mode, start_mode |-> start_mode,
                 round_active |-> b.round_active, players |-> b.players,
                 sent |-> b.sent, closes |-> b.closes, flow |-> "continue"]
    IN  CASE response.type = "change-state" ->
                [base EXCEPT !.join_mode = response.join_mode,
                             !.start_mode = response.start_mode]
          [] response.type = "end-round" ->
                [base EXCEPT !.round_active = FALSE,
                   !.sent = @ \o Broadcast(ids, b.players,
                                           send_end_round(response.reason))]
          [] response.type = "end-game" ->
                [base EXCEPT
                   !.sent = @ \o Broadcast(ids, b.players,
                                           send_end_game(response.reason)),
                   !.closes = @ \cup {b.players[p].ws : p \in DOMAIN b.players},
                   !.flow = "return"]
          [] response.type = "gract" ->
                LET d == Deliver(SimpleGractLists(response.gract_lists),
                                 [players |-> b.players, sent |-> b.sent,
                                  flow |-> "continue"])
                IN  [base EXCEPT !.players = d.players, !.sent = d.sent,
                                 !.flow = d.flow]
          [] response.type = "raise" -> [base EXCEPT !.flow = "crash"]
          [] OTHER -> base

\* History kept for every admitted player:
\*   advertised  the possibility list the module most recently returned for
\*               the player, read off the module's answers
\*   spent       an action of the player was accepted and the module has not
\*               returned a possible-actions gract for the player since
\*   kicked      an action of the player was refused as invalid
\*   round_ended an end-round answer was handled while the player was
\*               admitted and the module has not returned a possible-actions
\*               gract for the player since
\* The three flags are recorded only by the specifications that track them.
HistNew ==
    [advertised |-> <<>>, spent |-> FALSE, kicked |-> FALSE,
     round_ended |-> FALSE]

HasPossible(gract_list) ==
    \E i \in 1 .. Len(gract_list) : gract_list[i].type = "possible-actions"

LastPossible(gract_list, current) ==
    LET at == {i \in 1 .. Len(gract_list) :
                  gract_list[i].type = "possible-actions"}
    IN  IF at = {} THEN current
        ELSE gract_list[CHOOSE i \in at : \A j \in at : j <= i].possible_actions

RECURSIVE Note(_, _)
Note(gract_lists, h) ==
    IF gract_lists = <<>> THEN h
    ELSE LET id == Head(gract_lists)[1]
             gract_list == Head(gract_lists)[2]
         IN  Note(Tail(gract_lists),
                  IF id \in DOMAIN h
                  THEN [h EXCEPT
                          ![id].advertised = LastPossible(gract_list, @),
                          ![id].spent = IF HasPossible(gract_list)
                                        THEN FALSE ELSE @,
                          ![id].round_ended = IF HasPossible(gract_list)
                                              THEN FALSE ELSE @]
                  ELSE h)

Admitted(h, pl) == [p \in DOMAIN pl |-> IF p \in DOMAIN h THEN h[p] ELSE HistNew]

\* The history after one message: b is the state left by the first part of
\* the loop body, called says whether the module was called, response is its
\* answer, stop whether the engine task ended.
HistAfter(track, msg, b, called, response, stop) ==
    LET h0 == Admitted(hist, b.players)
        h1 == IF track /\ msg.type = "action" /\ called
              THEN [h0 EXCEPT ![msg.player_id].spent = TRUE]
              ELSE IF track /\ msg.type = "action" /\ b.closes # {}
              THEN [h0 EXCEPT ![msg.player_id].kicked = TRUE]
              ELSE h0
        h2 == IF called /\ response.type = "gract"
              THEN Note(response.gract_lists, h1)
              ELSE IF track /\ called /\ response.type = "end-round"
              THEN [p \in DOMAIN h1 |-> [h1[p] EXCEPT !.round_ended = TRUE]]
              ELSE h1
    IN  IF stop THEN [p \in {} |-> 0] ELSE h2

\* (CloseNone: the variant that closes no connection.)
CloseNone(cl, cs) == cl

CloseAllCl(cl, cs) ==
    [c \in Conns |-> IF c \in cs THEN CloseCl(cl, c)[c] ELSE cl[c]]

\* engine.py 484-493: the locals of a fresh engine task.  The locals of a
\* task that has ended are gone; they are put back to these values.
Locals ==
    [join_mode |-> Open, start_mode |-> Open, round_active |-> FALSE,
     next_player_id |-> 0, new_joins |-> [p \in {} |-> 0],
     players |-> [p \in {} |-> 0], player_tasks |-> {}, msgs |-> <<>>]

\* One message of the batch has been handled: e is the engine state the loop
\* body leaves and flow says how control left it.
Finish(e, flow) ==
    LET stop == flow \in {"return", "crash"}
        l == IF stop THEN Locals ELSE e
    IN  /\ pc' = CASE flow = "return" -> "exited"
                   [] flow = "crash" -> "crashed"
                   [] OTHER -> IF Tail(msgs) = <<>> THEN "wait" ELSE "process"
        /\ engines' = IF flow = "return" THEN engines \ {engine_id} ELSE engines
        /\ msgs' = IF stop THEN <<>> ELSE Tail(msgs)
        /\ join_mode' = l.join_mode
        /\ start_mode' = l.start_mode
        /\ round_active' = l.round_active
        /\ players' = l.players
        /\ player_tasks' = l.player_tasks
        /\ new_joins' = l.new_joins
        /\ next_player_id' = IF stop THEN 0 ELSE next_player_id
        /\ closed' = CloseAllCl(closed, e.closes)


\* The start mode at the return of the wait, handed on from one message of
\* the batch to the next.
SeenAfter ==
    IF step.op = "collect"
    THEN [known |-> TRUE, start_mode |-> start_mode]
    ELSE IF step.op = "process" THEN step.seen
    ELSE NoSeen

StepOf(msg) ==
    [NoStep EXCEPT !.op = "process", !.msg = msg, !.seen = SeenAfter]

\* engine.py 551-676: one message of the batch.
ProcessMsg(track) ==
    /\ pc = "process"
    /\ msgs # <<>>
    /\ LET msg == Head(msgs)
           b == Before(msg)
       IN  IF b.flow = "call"
           THEN \E r \in process_msg(instance, msg) :
                  LET a == After(r.resp, b)
                      e == [b EXCEPT !.players = a.players,
                                     !.round_active = a.round_active,
                                     !.closes = a.closes] @@
                           [join_mode |-> a.join_mode,
                            start_mode |-> a.start_mode]
                  IN  /\ instance' = r.inst
                      /\ Finish(e, a.flow)
                      /\ hist' = HistAfter(track, msg, b, TRUE, r.resp,
                                            a.flow \in {"return", "crash"})
                      /\ step' = [StepOf(msg) EXCEPT
                                    !.called = TRUE, !.resp = r.resp,
                                    !.sent = a.sent, !.closes = a.closes,
                                    !.flow = a.flow]
           ELSE /\ Finish(b @@ [join_mode |-> join_mode,
                                start_mode |-> start_mode], b.flow)
                /\ hist' = HistAfter(track, msg, b, FALSE, NoMsg,
                                      b.flow \in {"return", "crash"})
                /\ step' = [StepOf(msg) EXCEPT
                              !.sent = b.sent, !.closes = b.closes,
                              !.flow = b.flow]
                /\ UNCHANGED instance
    /\ WireStep
    /\ UNCHANGED <<next_engine_id, queue, routed, inbox, engine_id, cur_ws>>

\* --------------------------------------------------------- specification
Next ==
    \/ \E c \in Conns, kind \in ModuleKinds : Create(c, kind)
    \/ \E g \in GameIds, c \in Conns : Join(g, c)
    \/ \E c \in Conns : ClientSend(c)
    \/ \E c \in Conns : ClientClose(c)
    \/ EngineInit
    \/ WaitJoin
    \/ CollectJoin(ClientFrames)
    \/ CollectPlayers(ClientFrames)
    \/ ProcessMsg(FALSE)

Spec == Init /\ [][Next]_vars

\* The engine is one asyncio task: whenever it can run (the wait has a
\* finished task, an awaited receive has completed, a batch is left to be
\* handled) the event loop runs it.  Nothing obliges a client or the manager
\* to act.
EngineStep ==
    \/ EngineInit
    \/ WaitJoin
    \/ CollectJoin(ClientFrames)
    \/ CollectPlayers(ClientFrames)
    \/ ProcessMsg(FALSE)

SpecFair == Init /\ [][Next]_vars /\ WF_vars(EngineStep)

\* The same system with the history flags tracked and more client frames.
NextHist ==
    \/ \E c \in Conns, kind \in ModuleKinds : Create(c, kind)
    \/ \E g \in GameIds, c \in Conns : Join(g, c)
    \/ \E c \in Conns : ClientSend(c)
    \/ \E c \in Conns : ClientClose(c)
    \/ EngineInit
    \/ WaitJoin
    \/ CollectJoin(MockClientFrames)
    \/ CollectPlayers(MockClientFrames)
    \/ ProcessMsg(TRUE)

SpecHist == Init /\ [][NextHist]_vars

\* The same system with the test suite's MockModule as the module.
NextMock ==
    \/ \E c \in Conns : Create(c, "mock")
    \/ \E g \in GameIds, c \in Conns : Join(g, c)
    \/ \E c \in Conns : ClientSend(c)
    \/ \E c \in Conns : ClientClose(c)
    \/ EngineInit
    \/ WaitJoin
    \/ CollectJoin(MockClientFrames)
    \/ CollectPlayers(MockClientFrames)
    \/ ProcessMsg(TRUE)

SpecMock == Init /\ [][NextMock]_vars

\* The same system with a module that may return a value of no known kind.
NextStray ==
    \/ \E c \in Conns : Create(c, "stray")
    \/ \E g \in GameIds, c \in Conns : Join(g, c)
    \/ \E c \in Conns : ClientSend(c)
    \/ \E c \in Conns : ClientClose(c)
    \/ EngineInit
    \/ WaitJoin
    \/ CollectJoin(ClientFrames)
    \/ CollectPlayers(ClientFrames)
    \/ ProcessMsg(FALSE)

SpecStray == Init /\ [][NextStray]_vars

\* The same system with the rummy module as the module; the clients send the
\* frames of a rummy game.
RummyFrames ==
    {IntroFrame, StartFrame,
     ActionFrame(SelectCollectionAction(-1)),
     ActionFrame(SelectCollectionAction(-2)),
     ActionFrame(SelectCardAction(4)),
     ActionFrame(SelectCardAction(312))}

NextRummy ==
    \/ \E c \in Conns : Create(c, "rummy")
    \/ \E g \in GameIds, c \in Conns : Join(g, c)
    \/ \E c \in Conns : ClientSend(c)
    \/ \E c \in Conns : ClientClose(c)
    \/ EngineInit
    \/ WaitJoin
    \/ CollectJoin(RummyFrames)
    \/ CollectPlayers(RummyFrames)
    \/ ProcessMsg(FALSE)

SpecRummy == Init /\ [][NextRummy]_vars

\* check_hand in the game: a rummy game of two players in its first turn,
\* the first player having drawn from the central stack and holding any 8
\* cards of Deck, as the shuffle may have dealt them; the discard that
\* follows leaves a hand of 7 and runs check_hand on it.
Deck == {1, 2, 3, 4, 103, 104, 105, 106, 203, 303}

Hands8 == {H \in SUBSET Deck : Cardinality(H) = 8}

\* The module at rummy.py 138 of the first turn: player 0 holds H, player 1
\* the next 7 cards of the shuffled deck, the last card lies on the discard
\* stack and the others are the central stack.
RummyAfterDraw(H) ==
    LET rest == SelectSeq(id_stack, LAMBDA c : c \notin H)
    IN  [kind |-> "rummy",
         players |-> <<[id |-> 0, name |-> "n", cards |-> SortHand(H)],
                       [id |-> 1, name |-> "n",
                        cards |-> SubSeq(rest, 1, 7)]>>,
         central_stack |-> SubSeq(rest, 8, Len(rest) - 1),
         discard_stack |-> <<rest[Len(rest)]>>,
         player_order |-> <<0, 1>>,
         current_idx |-> 0,
         current_stage |-> 1]

InitCheckHand ==
    /\ next_engine_id = 1
    /\ engines = {0}
    /\ queue = [g \in {0} |-> <<>>]
    /\ routed = [c \in Conns |-> IF c \in {0, 1} THEN "queued" ELSE "fresh"]
    /\ inbox = [c \in Conns |-> 0]
    /\ closed = [c \in Conns |-> FALSE]
    /\ pc = "wait"
    /\ engine_id = 0
    /\ join_mode = Open
    /\ start_mode = Open
    /\ round_active = TRUE
    /\ next_player_id = 2
    /\ new_joins = [p \in {} |-> 0]
    /\ \E H \in Hands8 :
         /\ instance = RummyAfterDraw(H)
         /\ players = [p \in {0, 1} |->
                         [Player(p, "n", p) EXCEPT
                            !.possible_actions =
                               IF p = 0
                               THEN <<SelectCardPossibleAction(H)>>
                               ELSE <<>>]]
         /\ hist = [p \in {0, 1} |->
                      [HistNew EXCEPT
                         !.advertised =
                            IF p = 0 THEN <<SelectCardPossibleAction(H)>>
                            ELSE <<>>]]
    /\ wire = [c \in Conns |-> IF c \in {0, 1}
                                 THEN [first |-> "intro", intros |-> 1]
                                 ELSE NoWire]
    /\ player_tasks = {0, 1}
    /\ cur_ws = NoConn
    /\ msgs = <<>>
    /\ step = NoStep

CheckHandFrames == {ActionFrame(SelectCardAction(c)) : c \in Deck}

NextCheckHand ==
    \/ \E c \in Conns : ClientSend(c)
    \/ CollectPlayers(CheckHandFrames)
    \/ ProcessMsg(FALSE)

SpecCheckHand == InitCheckHand /\ [][NextCheckHand]_vars

\* Validation on its own: one admitted player in an active round whose
\* possibility list is any list of up to MaxPossLen possibilities, as a
\* module may have installed it, and who sends any of the actions.
ValPossibilities ==
    {NextPossibleAction, SelectCardPossibleAction({0}),
     SelectCollectionPossibleAction({0}), AgainstCardPossibleAction(1, {0}),
     WildCardPossibleAction(2, {2})}

ValLists == UNION {[1 .. n -> ValPossibilities] : n \in 0 .. MaxPossLen}

ValActions ==
    {NextAction, SelectCardAction(0), SelectCardAction(1),
     SelectCollectionAction(0), SelectCollectionAction(1),
     AgainstCardAction(1, 0), AgainstCardAction(2, 0), AgainstCardAction(1, 1),
     WildCardAction(2, 2), WildCardAction(1, 2), WildCardAction(2, 1)}

ValFrames == {ActionFrame(a) : a \in ValActions}

InitValidate ==
    /\ next_engine_id = 1
    /\ engines = {0}
    /\ queue = [g \in {0} |-> <<>>]
    /\ routed = [c \in Conns |-> IF c = 0 THEN "queued" ELSE "fresh"]
    /\ inbox = [c \in Conns |-> 0]
    /\ closed = [c \in Conns |-> FALSE]
    /\ pc = "wait"
    /\ engine_id = 0
    /\ instance = [kind |-> "modes", players |-> 0]
    /\ join_mode = Open
    /\ start_mode = Open
    /\ round_active = TRUE
    /\ next_player_id = 1
    /\ new_joins = [p \in {} |-> 0]
    /\ \E L \in ValLists :
         /\ players = [p \in {0} |-> [Player(0, "n", 0) EXCEPT
                                        !.possible_actions = L]]
         /\ hist = [p \in {0} |-> [HistNew EXCEPT !.advertised = L]]
    /\ wire = [c \in Conns |-> IF c = 0 THEN [first |-> "intro", intros |-> 1]
                                 ELSE NoWire]
    /\ player_tasks = {0}
    /\ cur_ws = NoConn
    /\ msgs = <<>>
    /\ step = NoStep

NextValidate ==
    \/ \E c \in Conns : ClientSend(c)
    \/ CollectPlayers(ValFrames)
    \/ ProcessMsg(FALSE)

SpecValidate == InitValidate /\ [][NextValidate]_vars

\* ------------------------------------------------------------- the claims
\* A step of the batch loop that handles a message of type t, read in the
\* state before the step; step' tells what the step did.
Handles(t) ==
    /\ pc = "process"
    /\ msgs # <<>>
    /\ Head(msgs).type = t
    /\ step'.op = "process"

\* The acceptance relation as the specification words it: possibility pa
\* admits action a, and list L accepts a when one of its entries admits it.
Admits(pa, a) ==
    \/ a.type = "next" /\ pa.type = "next"
    \/ a.type = "select" /\ pa.type = "select" /\ a.card_id \in pa.card_ids
    \/ /\ a.type = "select-coll" /\ pa.type = "select-coll"
       /\ a.collection_id \in pa.collection_ids
    \/ /\ a.type = "against" /\ pa.type = "against"
       /\ a.select_card_id = pa.select_card_id
       /\ a.against_card_id \in pa.against_card_ids
    \/ /\ a.type = "wild" /\ pa.type = "wild"
       /\ a.card_id = pa.card_id
       /\ a.type_id \in pa.type_ids

Accepts(L, a) == \E i \in 1 .. Len(L) : Admits(L[i], a)

PossibleAt(gract_list) ==
    {i \in 1 .. Len(gract_list) : gract_list[i].type = "possible-actions"}

\* C1: a player action reaches the module only if a round is active and the
\* action is accepted by the player's possibility list, which is the last
\* possible-actions list the module returned for that player.
C1_DispatchedActionWasAdvertised ==
    [][(Handles("action") /\ step'.called) =>
          LET p == Head(msgs).player_id IN
          /\ round_active
          /\ p \in DOMAIN hist
          /\ players[p].possible_actions = hist[p].advertised
          /\ Accepts(hist[p].advertised, Head(msgs).action)]_vars

C1_Witness ==
    /\ step.op = "process"
    /\ step.msg.type = "action"
    /\ step.called
    /\ step.msg.player_id \in DOMAIN hist
    /\ hist[step.msg.player_id].advertised # <<>>

\* C2: once an action of a player was accepted, no further action of that
\* player is accepted before the module returned a possible-actions gract
\* for the player.
C2_AcceptedActionSpendsTheList ==
    [][(Handles("action") /\ step'.called) =>
          ~hist[Head(msgs).player_id].spent]_vars

\* C3: the module's join hook is called only for joins processed while
\* join_mode is open, the joiner then being in the players map.
C3_JoinHookOnlyForAdmitted ==
    [][(Handles("join") /\ step'.called) =>
          /\ join_mode.open
          /\ step'.flow = "continue" =>
                Head(msgs).player_id \in DOMAIN players']_vars

\* C4: a join processed while join_mode is closed sends the error frame with
\* the reason to the joiner and nothing else to anybody, and the joiner does
\* not enter the players map.
C4_RejectedJoinOnlyAnswersTheJoiner ==
    [][(Handles("join") /\ ~join_mode.open) =>
          LET id == Head(msgs).player_id IN
          /\ step'.sent = << <<new_joins[id].ws,
                               send_error(join_mode.reason)>> >>
          /\ id \notin DOMAIN players']_vars

\* C5: an action that the player's possibility list does not accept, sent in
\* an active round, is answered with error "invalid action" to that player
\* alone, that player's connection is closed and the module is not called.
C5_InvalidActionRefused ==
    [][(/\ Handles("action")
        /\ round_active
        /\ ~Accepts(players[Head(msgs).player_id].possible_actions,
                    Head(msgs).action)) =>
          LET ws == players[Head(msgs).player_id].ws IN
          /\ step'.sent = << <<ws, send_error("invalid action")>> >>
          /\ step'.closes = {ws}
          /\ closed'[ws]
          /\ ~step'.called
          /\ instance' = instance]_vars

C5_Witness ==
    /\ step.op = "process"
    /\ step.msg.type = "action"
    /\ ~step.called
    /\ Cardinality(DOMAIN players) = 2
    /\ step.msg.player_id \in DOMAIN players
    /\ step.sent = << <<players[step.msg.player_id].ws,
                        send_error("invalid action")>> >>
    /\ closed[players[step.msg.player_id].ws]

\* C6: after an action of a player was refused as invalid, no start-round
\* and no action of that player reaches the module.
C6_NothingDispatchedAfterRefusal ==
    [][(/\ pc = "process" /\ msgs # <<>> /\ step'.op = "process"
        /\ Head(msgs).type \in {"start", "action"}
        /\ Head(msgs).player_id \in DOMAIN hist
        /\ hist[Head(msgs).player_id].kicked) =>
          ~step'.called]_vars

\* C7: in an active round an action is passed on exactly when the player's
\* list accepts it: next by a next entry, select-card, select-collection by
\* an entry holding the id, against-card by an entry with the same select
\* card holding the against card, wild-card by an entry with the same card
\* holding the type; nothing is accepted by the empty list.
C7_ValidationAcceptsExactly ==
    [][(Handles("action") /\ round_active) =>
          (step'.called <=>
             Accepts(players[Head(msgs).player_id].possible_actions,
                     Head(msgs).action))]_vars

C7_Witness ==
    /\ step.op = "process"
    /\ step.msg.type = "action"
    /\ step.msg.action.type = "against"
    /\ step.called
    /\ 0 \in DOMAIN players
    /\ Len(players[0].possible_actions) = 2

\* C8: when the gract list for a player holds several possible-actions
\* gracts, the player's list afterwards is the last of them, and the
\* validation refuses every action that the last one does not accept.
C8_LastPossibleActionsWins ==
    [][(/\ pc = "process" /\ step'.op = "process" /\ step'.called
        /\ step'.resp.type = "gract" /\ step'.flow = "continue") =>
          \A k \in 1 .. Len(step'.resp.gract_lists) :
             LET id == step'.resp.gract_lists[k][1]
                 gract_list == step'.resp.gract_lists[k][2]
                 at == PossibleAt(gract_list)
             IN  Cardinality(at) >= 2 =>
                   /\ id \in DOMAIN players'
                   /\ \A i \in at :
                        (\A j \in at : j <= i) =>
                           /\ players'[id].possible_actions =
                                 gract_list[i].possible_actions
                           /\ \A a \in ValActions :
                                ~Accepts(gract_list[i].possible_actions, a)
                                   => ~can_perform(a,
                                         players'[id].possible_actions)]_vars

C8_Witness ==
    /\ step.op = "process"
    /\ step.called
    /\ step.resp.type = "gract"
    /\ step.flow = "continue"
    /\ \E k \in 1 .. Len(step.resp.gract_lists) :
          /\ Cardinality(PossibleAt(step.resp.gract_lists[k][2])) >= 2
          /\ players[step.resp.gract_lists[k][1]].possible_actions
                = OtherPossible

\* C9: a start-round handled with no round active and start_mode closed
\* sends the error with the reason to the sender alone, leaves round_active
\* false, does not call the module and lets the game go on; a start-round
\* reaches the module only with no round active and start_mode open.
C9_StartRefusedWhenClosed ==
    [][/\ (Handles("start") /\ ~round_active /\ ~start_mode.open) =>
             /\ step'.sent = << <<players[Head(msgs).player_id].ws,
                                  send_error(start_mode.reason)>> >>
             /\ step'.closes = {}
             /\ ~step'.called
             /\ instance' = instance
             /\ ~round_active'
             /\ pc' \in {"wait", "process"}
             /\ msgs' = Tail(msgs)
             /\ players' = players
             /\ engines' = engines
       /\ (Handles("start") /\ step'.called) =>
             (~round_active /\ start_mode.open)]_vars

C9_Witness ==
    /\ step.op = "process"
    /\ step.msg.type = "start"
    /\ ~step.called
    /\ ~round_active
    /\ Cardinality(DOMAIN players) = 2
    /\ step.sent = << <<players[step.msg.player_id].ws,
                        send_error("start closed")>> >>

\* C10: a start-round handled while a round is active, whatever start_mode
\* is, sends one error frame to the sender alone, does not call the module,
\* leaves round_active true and lets the engine go on.
C10_StartRefusedWhileRoundActive ==
    [][(Handles("start") /\ round_active) =>
          /\ Len(step'.sent) = 1
          /\ step'.sent[1][1] = players[Head(msgs).player_id].ws
          /\ step'.sent[1][2].type = "error"
          /\ ~step'.called
          /\ round_active'
          /\ pc' \in {"wait", "process"}
          /\ engine_id \in engines']_vars

\* C11: round_active goes from false to true only when a start-round is
\* accepted (no round active, start_mode open, the module called), and from
\* true to false only when the module answers end-round or the engine task
\* ends; no other step changes it.
C11_RoundActiveChangesOnlyAtStartAndEnd ==
    [][(round_active' # round_active) =>
          \/ /\ ~round_active
             /\ Handles("start")
             /\ start_mode.open
             /\ step'.called
          \/ /\ round_active
             /\ step'.op = "process"
             /\ \/ step'.called /\ step'.resp.type = "end-round"
                \/ step'.flow \in {"return", "crash"}]_vars

C11_Witness ==
    /\ step.op = "process"
    /\ step.msg.type = "start"
    /\ step.called
    /\ step.flow = "continue"
    /\ round_active

\* The number of times frame was sent to connection c in the sequence sent.
TimesSent(sent, c, frame) ==
    Cardinality({i \in 1 .. Len(sent) : sent[i] = <<c, frame>>})

\* C12: when the module answers end-round(reason), round_active becomes
\* false, every player in the players map is sent exactly one end-round
\* frame with the reason and nobody else is sent one; join_mode, start_mode
\* and the players map are left as they were when the module was called.
C12_EndRoundReachesEveryPlayerOnce ==
    [][(step'.op = "process" /\ step'.called /\ step'.resp.type = "end-round") =>
          LET msg == Head(msgs)
              frame == send_end_round(step'.resp.reason)
          IN  /\ ~round_active'
              /\ \A p \in DOMAIN players' :
                    TimesSent(step'.sent, players'[p].ws, frame) = 1
              /\ \A i \in 1 .. Len(step'.sent) :
                    step'.sent[i][2].type = "end-round" =>
                        /\ step'.sent[i][2] = frame
                        /\ \E p \in DOMAIN players' :
                              players'[p].ws = step'.sent[i][1]
              /\ join_mode' = join_mode
              /\ start_mode' = start_mode
              /\ DOMAIN players' =
                    CASE msg.type = "join" /\ join_mode.open ->
                            DOMAIN players \cup {msg.player_id}
                      [] msg.type = "leave" -> DOMAIN players \ {msg.player_id}
                      [] OTHER -> DOMAIN players
              /\ \A p \in DOMAIN players' \cap DOMAIN players :
                    players'[p] = players[p]
              /\ pc' \in {"wait", "process"}]_vars

C12_Witness ==
    /\ step.op = "process"
    /\ step.msg.type = "action"
    /\ step.called
    /\ step.resp.type = "end-round"
    /\ Cardinality(DOMAIN players) = 2
    /\ \A p \in DOMAIN players :
          TimesSent(step.sent, players[p].ws, send_end_round("round over")) = 1
    /\ ~round_active

\* The connections of the players map as the message at the head of the
\* batch leaves it: an admitted joiner is in it, a leaver is not.
PlayersWsAtCall ==
    LET msg == Head(msgs)
        ws == {players[p].ws : p \in DOMAIN players}
    IN  CASE msg.type = "join" /\ join_mode.open ->
                ws \cup {new_joins[msg.player_id].ws}
          [] msg.type = "leave" -> ws \ {players[msg.player_id].ws}
          [] OTHER -> ws

\* C13: when the module answers end-game(reason) to any message, every
\* admitted player is sent exactly one end-game frame with the reason and
\* the player's connection is closed, nobody else is sent one, the game's
\* entry is removed from the manager, the engine exits, and what is left of
\* the batch is dropped: no later message is handled or reaches the module.
C13_EndGameEndsEverything ==
    [][(step'.op = "process" /\ step'.called /\ step'.resp.type = "end-game") =>
          LET frame == send_end_game(step'.resp.reason) IN
          /\ \A c \in PlayersWsAtCall :
                /\ TimesSent(step'.sent, c, frame) = 1
                /\ c \in step'.closes
                /\ closed'[c]
          /\ \A i \in 1 .. Len(step'.sent) :
                step'.sent[i][2].type = "end-game" =>
                    /\ step'.sent[i][2] = frame
                    /\ step'.sent[i][1] \in PlayersWsAtCall
          /\ engine_id \notin engines'
          /\ pc' = "exited"
          /\ msgs' = <<>>]_vars

C13_Witness ==
    /\ step.op = "process"
    /\ step.called
    /\ step.resp.type = "end-game"
    /\ Len(step.sent) = 2
    /\ \A i \in 1 .. 2 : step.sent[i][2] = send_end_game("game over")
    /\ Cardinality(step.closes) = 2
    /\ \A c \in step.closes : closed[c]
    /\ pc = "exited"
    /\ engines = {}

\* C14: when the disconnect of the last admitted player is handled, the
\* engine removes the game from the manager and exits without handing the
\* leave to the module; a game that was removed never comes back, and every
\* later join with its id is answered with the error "game does not exist"
\* and queued nowhere.
C14_LastLeaveEndsTheGame ==
    [][/\ (Handles("leave") /\ DOMAIN players = {Head(msgs).player_id}) =>
             /\ ~step'.called
             /\ instance' = instance
             /\ step'.sent = <<>>
             /\ engine_id \notin engines'
             /\ pc' = "exited"
       /\ \A g \in GameIds :
             (g < next_engine_id /\ g \notin engines) =>
                 /\ g \notin engines'
                 /\ \A c \in Conns :
                       Join(g, c) =>
                           /\ step'.sent =
                                << <<c, send_error("game does not exist")>> >>
                           /\ queue' = queue]_vars

C14_Witness ==
    /\ step.op = "process"
    /\ step.msg.type = "leave"
    /\ ~step.called
    /\ step.flow = "return"
    /\ pc = "exited"
    /\ engine_id \notin engines
    /\ wire[0].intros = 1

\* C15: the manager's map holds an entry for a game exactly when the engine
\* task of that game is still running: no engine task ends, by a return or
\* by an unhandled failure, with its entry left in the map.
C15_EntryIffEngineRunning ==
    \A g \in GameIds : g \in engines <=> (g = engine_id /\ ~EngineStopped)

\* C16: a join with a game id that is not in the manager's map sends
\* exactly one frame, the error "game does not exist", on the joining
\* connection and on no other, puts the connection on no queue, and leaves
\* the map and the id counter unchanged.
C16_JoinOfUnknownGame ==
    [][\A g \in GameIds, c \in Conns :
          (g \notin engines /\ Join(g, c)) =>
              /\ step'.sent = << <<c, send_error("game does not exist")>> >>
              /\ wire'[c] = HeardOne(wire[c], send_error("game does not exist"))
              /\ \A d \in Conns \ {c} : wire'[d] = wire[d]
              /\ queue' = queue
              /\ engines' = engines
              /\ next_engine_id' = next_engine_id]_vars

C16_Witness ==
    \E c \in Conns :
        /\ step.op = "join"
        /\ routed[c] = "nogame"
        /\ step.sent = << <<c, send_error("game does not exist")>> >>
        /\ wire[c] = [first |-> "other", intros |-> 0]
        /\ \A g \in DOMAIN queue :
              \A i \in 1 .. Len(queue[g]) : queue[g][i] # c

\* C17: once a join on a game that no longer exists has been answered with
\* the error "game does not exist", the server has closed the joining
\* connection, so that the client's next receive reports the close.
C17_JoinOfEndedGameClosesTheConnection ==
    [][\A g \in GameIds, c \in Conns :
          (g < next_engine_id /\ g \notin engines /\ Join(g, c)) =>
              /\ step'.sent = << <<c, send_error("game does not exist")>> >>
              /\ closed'[c]]_vars

\* C18: every admitted player is sent exactly one intro frame, and it is
\* the first frame the server sends on that player's connection: a
\* connection in the players map has had an intro first and no second one,
\* and no connection at all has had two intros or an intro after another
\* frame.
C18_OneIntroAndItIsFirst ==
    /\ \A p \in DOMAIN players :
          wire[players[p].ws] = [first |-> "intro", intros |-> 1]
    /\ \A c \in Conns :
          /\ wire[c].intros <= 1
          /\ wire[c].intros = 1 => wire[c].first = "intro"

C18_Witness ==
    /\ Cardinality(DOMAIN players) = 2
    /\ \A p \in DOMAIN players :
          wire[players[p].ws] = [first |-> "intro", intros |-> 1]
    /\ step.op = "process"
    /\ step.called
    /\ step.resp.type = "end-round"
    /\ Len(step.sent) = 2

\* The intro frame as the wire format names its fields.
IntroOnTheWire(game_id, player_id) ==
    ("type" :> "intro") @@ ("game-id" :> game_id) @@ ("player-id" :> player_id)

\* C19: the intro frame sent to an admitted player has the type "intro" and
\* the hyphen-named fields "game-id" and "player-id", holding the id of the
\* game and the id the player was given (0 and 0 for the host of the first
\* game, player id 1 for the next joiner).
C19_IntroFrameFields ==
    [][(Handles("join") /\ join_mode.open) =>
          LET id == Head(msgs).player_id IN
          /\ step'.sent # <<>>
          /\ step'.sent[1] = <<new_joins[id].ws, IntroOnTheWire(engine_id, id)>>]_vars

\* C20: within one game no player id is assigned twice.  An id is assigned
\* only by taking the current value of the counter, which the same step
\* advances by one; while the game runs the counter changes in no other way
\* and never goes down; every id in use is below the counter, and two
\* different ids never name the same connection.
C20_PlayerIdsAreNeverReused ==
    [][LET running == step'.op # "create" /\ step'.flow \notin {"return", "crash"}
           holder == [p \in DOMAIN players \cup DOMAIN new_joins |->
                         IF p \in DOMAIN players THEN players[p].ws
                         ELSE new_joins[p].ws]
       IN  /\ DOMAIN players \cap DOMAIN new_joins = {}
           /\ \A p \in DOMAIN holder : p < next_player_id
           /\ \A p, q \in DOMAIN holder : p # q => holder[p] # holder[q]
           /\ \A p \in DOMAIN players : players[p].id = p
           /\ \A p \in DOMAIN new_joins : new_joins[p].id = p
           /\ running =>
                /\ next_player_id' \in {next_player_id, next_player_id + 1}
                /\ \A p \in DOMAIN new_joins' \ DOMAIN new_joins :
                      /\ p = next_player_id
                      /\ next_player_id' = next_player_id + 1
                      /\ new_joins'[p].ws = cur_ws
                /\ next_player_id' = next_player_id + 1 =>
                      next_player_id \in DOMAIN new_joins'
                /\ DOMAIN players' \subseteq DOMAIN players \cup DOMAIN new_joins
                /\ \A p \in DOMAIN players' \ DOMAIN players :
                      players'[p].ws = new_joins[p].ws]_vars

C20_Witness ==
    /\ next_player_id = 2
    /\ DOMAIN players = {1}
    /\ players[1].ws = 1
    /\ wire[0].intros = 1
    /\ pc = "wait"

\* C21: game ids are unique for the lifetime of the manager.  A game enters
\* the map only under the current value of the id counter, in a step that
\* advances the counter by one and leaves every other entry and queue as it
\* was; the counter changes in no other way; every id in the map, and every
\* id that ever had a queue, is below the counter, so a create never
\* overwrites an entry and an id freed by a finished game is never given out
\* again.
C21_GameIdsAreNeverReused ==
    [][/\ \A g \in engines \cup DOMAIN queue : g < next_engine_id
       /\ next_engine_id' \in {next_engine_id, next_engine_id + 1}
       /\ \A g \in engines' \ engines :
             /\ g = next_engine_id
             /\ next_engine_id' = next_engine_id + 1
             /\ engines' = engines \cup {g}
             /\ Len(queue'[g]) = 1
             /\ \A h \in DOMAIN queue : queue'[h] = queue[h]
       /\ next_engine_id' = next_engine_id + 1 =>
             /\ next_engine_id \in engines'
             /\ step'.op = "create"
       /\ DOMAIN queue \subseteq DOMAIN queue']_vars

C21_Witness ==
    /\ step.op = "create"
    /\ next_engine_id = 2
    /\ engines = {1}
    /\ engine_id = 1
    /\ DOMAIN queue = {0, 1}

\* C22: whenever a running engine is back at its multi-way wait, the
\* receive tasks it waits on, next to the one receive on the join channel,
\* are exactly one per player in the players map: no admitted player is
\* without a receive task and no task belongs to a player who has left.
C22_OneReceiveTaskPerPlayer ==
    pc = "wait" =>
        /\ player_tasks = DOMAIN players
        /\ engine_id \in DOMAIN queue

C22_Witness ==
    /\ pc = "wait"
    /\ step.op = "process"
    /\ step.msg.type = "leave"
    /\ step.called
    /\ player_tasks = {1}
    /\ DOMAIN players = {1}

\* C23: the messages of a batch are handled in insertion order, each under
\* the state its predecessors left.  A step of the batch handles the head of
\* what is left and, going on, leaves the tail; a join is admitted or
\* refused by the join mode as it is then, a start-round reaches the module
\* exactly when, as things are then, no round is active and the start mode
\* is open; a change-state answer sets the modes for the messages after it
\* and nothing else changes them.
C23_BatchInOrderUnderCurrentModes ==
    [][(pc = "process" /\ step'.op = "process") =>
          LET msg == Head(msgs)
              changes == step'.called /\ step'.resp.type = "change-state"
          IN  /\ step'.msg = msg
              /\ step'.flow = "continue" =>
                    /\ msgs' = Tail(msgs)
                    /\ IF changes
                       THEN /\ join_mode' = step'.resp.join_mode
                            /\ start_mode' = step'.resp.start_mode
                       ELSE /\ join_mode' = join_mode
                            /\ start_mode' = start_mode
              /\ msg.type = "join" =>
                    /\ step'.sent # <<>>
                    /\ step'.sent[1] =
                          <<new_joins[msg.player_id].ws,
                            IF join_mode.open
                            THEN send_intro(engine_id, msg.player_id)
                            ELSE send_error(join_mode.reason)>>
              /\ msg.type = "start" =>
                    (step'.called <=> (~round_active /\ start_mode.open))]_vars

C23_Witness ==
    /\ step.op = "process"
    /\ step.msg.type = "start"
    /\ step.seen.known
    /\ step.seen.start_mode.open
    /\ ~step.called
    /\ step.flow = "continue"
    /\ step.msg.player_id \in DOMAIN players
    /\ step.sent = << <<players[step.msg.player_id].ws,
                        send_error("start closed")>> >>
    /\ ~start_mode.open
    /\ ~round_active

\* C24: when the module's init probe returns anything but a change-state
\* with an open join mode, the engine removes the game from the manager and
\* exits with no player admitted and nothing sent, and the module of that
\* game is never called again; otherwise the returned modes become the
\* initial modes, round_active starts false and the engine goes to its wait.
C24_InitProbeDecides ==
    [][/\ step'.op = "init" =>
             /\ pc = "init"
             /\ step'.called
             /\ step'.msg = InitEngMsg
             /\ step'.sent = <<>>
             /\ players' = [p \in {} |-> 0]
             /\ IF step'.resp.type = "change-state" /\ step'.resp.join_mode.open
                THEN /\ join_mode' = step'.resp.join_mode
                     /\ start_mode' = step'.resp.start_mode
                     /\ ~round_active'
                     /\ pc' = "wait"
                     /\ engines' = engines
                     /\ engine_id \in engines'
                ELSE /\ pc' = "exited"
                     /\ engines' = engines \ {engine_id}
       /\ pc = "exited" => ~step'.called]_vars

C24_Witness ==
    /\ step.op = "init"
    /\ step.called
    /\ step.resp.type = "change-state"
    /\ ~step.resp.join_mode.open
    /\ pc = "exited"
    /\ engine_id \notin engines
    /\ \A c \in Conns : wire[c] = NoWire

\* C25: when the module answers a message with a value that is none of
\* empty, change-state, gract, end-round and end-game, the game is over: the
\* engine removes the game from the manager and stops.
C25_UnknownAnswerIsFatal ==
    [][(step'.op = "process" /\ step'.called /\ step'.resp = UnknownModMsg) =>
          /\ engine_id \notin engines'
          /\ pc' = "exited"]_vars

\* The players map as the message at the head of the batch leaves it, by
\* player id, and the connection of such a player.
PlayerIdsAtCall ==
    LET msg == Head(msgs) IN
    CASE msg.type = "join" /\ join_mode.open ->
            DOMAIN players \cup {msg.player_id}
      [] msg.type = "leave" -> DOMAIN players \ {msg.player_id}
      [] OTHER -> DOMAIN players

WsAtCall(p) == IF p \in DOMAIN players THEN players[p].ws ELSE new_joins[p].ws

\* C26: when the bundle of a gract answer holds a list for a player id that
\* is not in the players map, that list is dropped silently: no frame is
\* sent for it, the list of every player who is in the map is still sent to
\* that player, and the engine keeps running.
C26_ListForUnknownPlayerIsDropped ==
    [][(step'.op = "process" /\ step'.called /\ step'.resp.type = "gract") =>
          LET bundle == step'.resp.gract_lists
              known == {i \in 1 .. Len(bundle) :
                           /\ bundle[i][1] \in PlayerIdsAtCall
                           /\ bundle[i][2] # <<>>}
              frames == {i \in 1 .. Len(step'.sent) :
                            step'.sent[i][2].type = "gract-list"}
          IN  /\ \A i \in known :
                    TimesSent(step'.sent, WsAtCall(bundle[i][1]),
                              send_gracts(bundle[i][2])) = 1
              /\ Cardinality(frames) = Cardinality(known)
              /\ step'.flow = "continue"
              /\ pc' \in {"wait", "process"}
              /\ engine_id \in engines']_vars

\* C27: when an admitted player sends a frame that violates the protocol,
\* the engine closes that player's connection and sends no frame, no error
\* frame either, and queues the player's disconnect once; when the
\* disconnect is handled the player is removed from the players map, no
\* frame goes to the player's connection, and the leave reaches the module
\* exactly when other players remain.
C27_ProtocolViolationDisconnects ==
    [][/\ step'.op = "collect" =>
             /\ step'.sent = <<>>
             /\ wire' = wire
             /\ \A p \in step'.refused :
                   /\ p \in DOMAIN players
                   /\ closed'[players[p].ws]
                   /\ Cardinality({i \in 1 .. Len(msgs') :
                                      msgs'[i] = PlayerLeaveEngMsg(p)}) = 1
                   /\ \A i \in 1 .. Len(msgs') :
                         msgs'[i].type \in {"start", "action"} =>
                             msgs'[i].player_id # p
       /\ Handles("leave") =>
             LET p == Head(msgs).player_id IN
             /\ p \notin DOMAIN players'
             /\ \A i \in 1 .. Len(step'.sent) :
                   step'.sent[i][1] # players[p].ws
             /\ step'.called <=> DOMAIN players # {p}]_vars

C27_Witness ==
    /\ step.op = "collect"
    /\ step.refused = {0}
    /\ pc = "process"
    /\ msgs = <<PlayerLeaveEngMsg(0)>>
    /\ DOMAIN players = {0, 1}
    /\ closed[players[0].ws]
    /\ wire[players[0].ws] = [first |-> "intro", intros |-> 1]

\* C28: when the game ends by an end-game answer, every receive task that
\* is pending at that moment is cancelled before the engine exits.  The
\* engine cancels the tasks of the tuple aws it last waited on; a task
\* created since the wait returned is not in it.  So, for the first message
\* of a batch: the queue task, if it was created anew, is not pending (a
\* connection is queued), and so is the task of every player that was
\* created anew or with the admission (a frame or a close is in flight).
C28_EndGameCancelsPendingReceives ==
    [][(/\ step.op = "collect"
        /\ step'.op = "process"
        /\ step'.called
        /\ step'.resp.type = "end-game") =>
          LET msg == Head(msgs)
              created == (step.renewed.players \cap PlayerIdsAtCall)
                         \cup (IF msg.type = "join" /\ join_mode.open
                               THEN {msg.player_id} ELSE {})
          IN  /\ step.renewed.queue => queue[engine_id] # <<>>
              /\ \A p \in created : Ready(inbox, closed, WsAtCall(p))]_vars

\* C29: handling PlayerLeave(id) removes id from the players map and from
\* the map of receive tasks and changes no other player's record; when
\* other players remain, the module is called, once, with the leave of id,
\* and its answer is read like any other: a change-state sets the modes, an
\* end-round ends the round and goes to the players who remain, a gract
\* changes nothing of a player but the possibility list, an end-game ends
\* the engine.
C29_LeaveRemovesOnlyTheLeaver ==
    [][(Handles("leave") /\ DOMAIN players # {Head(msgs).player_id}) =>
          LET p == Head(msgs).player_id
              resp == step'.resp
          IN  /\ step'.called
              /\ step'.msg = PlayerLeaveEngMsg(p)
              /\ step'.flow = "continue" =>
                    /\ DOMAIN players' = DOMAIN players \ {p}
                    /\ player_tasks' = player_tasks \ {p}
                    /\ \A q \in DOMAIN players' :
                          /\ players'[q].id = players[q].id
                          /\ players'[q].name = players[q].name
                          /\ players'[q].ws = players[q].ws
                          /\ resp.type # "gract" => players'[q] = players[q]
                    /\ new_joins' = new_joins
                    /\ next_player_id' = next_player_id
              /\ resp.type = "change-state" =>
                    /\ join_mode' = resp.join_mode
                    /\ start_mode' = resp.start_mode
              /\ resp.type = "end-round" =>
                    /\ ~round_active'
                    /\ \A q \in DOMAIN players \ {p} :
                          TimesSent(step'.sent, players[q].ws,
                                    send_end_round(resp.reason)) = 1
              /\ resp.type = "end-game" => pc' = "exited"]_vars

C29_Witness ==
    /\ step.op = "process"
    /\ step.msg = PlayerLeaveEngMsg(0)
    /\ step.called
    /\ step.resp.type = "change-state"
    /\ step.flow = "continue"
    /\ DOMAIN players = {1}
    /\ player_tasks = {1}
    /\ join_mode = step.resp.join_mode

C31_RoundsCanRepeat ==
    [][(step'.op = "process") =>
          /\ (/\ step'.called
              /\ step'.resp.type = "end-round"
              /\ step'.flow = "continue") => ~round_active'
          /\ (/\ Head(msgs).type = "start"
              /\ ~round_active
              /\ start_mode.open) =>
                /\ step'.called
                /\ step'.msg = Head(msgs)
                /\ \A i \in 1 .. Len(step'.sent) :
                      step'.sent[i][2].type # "error"
                /\ (step'.flow = "continue" /\ step'.resp.type # "end-round")
                      => round_active']_vars

C31_Witness ==
    /\ step.op = "process"
    /\ step.msg.type = "start"
    /\ step.called
    /\ step.flow = "continue"
    /\ round_active
    /\ \E p \in DOMAIN hist : hist[p].round_ended


\* A connection that was handed to a game and that the manager and the
\* engine no longer hold anywhere.
Gone(c) ==
    /\ routed[c] = "queued"
    /\ \A g \in DOMAIN queue : \A i \in 1 .. Len(queue[g]) : queue[g][i] # c
    /\ c # cur_ws
    /\ \A p \in DOMAIN new_joins : new_joins[p].ws # c
    /\ \A p \in DOMAIN players : players[p].ws # c

\* C32: when the first frame of a connection taken from the join channel is
\* not a valid intro (another frame type, a frame recv refuses, or the end
\* of the stream), the engine closes the connection, hands out no player id,
\* makes no joining record and no join message for it, calls no module hook
\* and sends no frame in that pass, and holds the connection nowhere
\* afterwards; a connection the engine no longer holds is never held again,
\* so it is never admitted.
C32_NoIntroNoAdmission ==
    [][/\ (/\ pc = "intro"
           /\ step'.op = "collect"
           /\ step'.msg.type # "intro") =>
              /\ closed'[cur_ws]
              /\ next_player_id' = next_player_id
              /\ new_joins' = new_joins
              /\ players' = players
              /\ player_tasks' = player_tasks
              /\ ~step'.called
              /\ step'.sent = <<>>
              /\ \A i \in 1 .. Len(msgs') : msgs'[i].type # "join"
              /\ wire'[cur_ws] = NoWire
              /\ \A c \in Conns : c = cur_ws => Gone(c)'
       /\ \A c \in Conns : Gone(c) => Gone(c)']_vars

C32_Witness ==
    /\ step.op = "collect"
    /\ step.msg.type = "start-round"
    /\ DOMAIN players # {}
    /\ msgs # <<>>
    /\ \E c \in Conns : Gone(c) /\ closed[c] /\ wire[c] = NoWire


\* The frame of player p has been taken into the batch by the collecting
\* pass that has just ended.
InBatch(p) ==
    /\ step.op = "collect"
    /\ \E i \in 1 .. Len(msgs) :
          /\ msgs[i].type \in {"start", "action", "leave"}
          /\ msgs[i].player_id = p

\* A frame of the admitted player p is in flight while the engine task is
\* suspended.
FrameWaits(p) ==
    /\ Suspended
    /\ p \in player_tasks
    /\ inbox[players[p].ws] > 0

\* C33: a frame that an admitted player has sent is eventually taken up by
\* the engine (or the engine task has ended), whatever a connection on the
\* join channel does, also when it never sends its first frame.
C33_SilentJoinerDoesNotBlock ==
    \A p \in PlayerIds : FrameWaits(p) ~> (InBatch(p) \/ EngineStopped)

\* The same with the engine assumed not to stay at the receive on a new
\* connection for ever.
ServedUnlessHeldAtIntro ==
    (<>[](pc = "intro")) \/ C33_SilentJoinerDoesNotBlock


\* The server has answered connection c: a frame was sent on it, or it is
\* closed (by whichever side).
Answered(c) == wire[c].first # "none" \/ closed[c]

\* C34: a connection that was put on the join channel of a registered game
\* and has sent a frame is eventually sent a frame by the server or closed;
\* none is left without a response for ever, also not one that is still
\* queued when the engine task ends.
C34_EveryJoinerIsAnswered ==
    \A c \in Conns :
        (routed[c] = "queued" /\ inbox[c] > 0) ~> Answered(c)

\* The same for the behaviours in which the engine task neither stays at the
\* receive on a new connection for ever nor ends with an exception.
AnsweredUnlessHeldOrCrashed ==
    (<>[](pc \in {"intro", "crashed"})) \/ C34_EveryJoinerIsAnswered

\* The same for the behaviours in which the engine task does not end.
AnsweredWhileEngineRuns ==
    (<>[](pc \in {"intro", "crashed", "exited"})) \/ C34_EveryJoinerIsAnswered


\* C35: a running engine that has taken a connection from the join channel
\* (it has been through a collecting pass, so its last step was a collecting
\* pass or a message of a batch) and is suspended at its wait again has at
\* least one player.
C35_NoGameWithoutPlayers ==
    (pc = "wait" /\ step.op \in {"collect", "process"}) =>
        DOMAIN players # {}


\* C36: possibility lists do not survive a round.  An action that the engine
\* accepts and hands to the module comes from a player for whom the module
\* has returned a possible-actions gract since the last end-round.
C36_PossibilitiesEndWithTheRound ==
    [][(Handles("action") /\ step'.called) =>
          ~hist[step'.msg.player_id].round_ended]_vars


\* C37: a player action handled while no round is active is dropped: the
\* module is not called, no frame is sent, no connection is closed, the
\* sender stays admitted with its receive task, and the modes, round_active
\* and every possibility list are as before; the engine goes on with the
\* next message.
C37_ActionOutsideRoundIsDropped ==
    [][(Handles("action") /\ ~round_active) =>
          /\ step'.msg = Head(msgs)
          /\ ~step'.called
          /\ step'.sent = <<>>
          /\ step'.closes = {}
          /\ step'.flow = "continue"
          /\ closed' = closed
          /\ players' = players
          /\ player_tasks' = player_tasks
          /\ new_joins' = new_joins
          /\ join_mode' = join_mode
          /\ start_mode' = start_mode
          /\ round_active' = round_active
          /\ instance' = instance
          /\ engines' = engines
          /\ msgs' = Tail(msgs)]_vars

C37_Witness ==
    /\ step.op = "process"
    /\ step.msg.type = "action"
    /\ ~step.called
    /\ step.sent = <<>>
    /\ ~round_active
    /\ step.msg.player_id \in DOMAIN players
    /\ can_perform(step.msg.action,
                   players[step.msg.player_id].possible_actions)
    /\ ~closed[players[step.msg.player_id].ws]


\* C38: in a game run by the engine with the rummy module, every
\* PlayerAction the engine dispatches to the module comes from the module's
\* current player and has the type the current stage expects
\* (select-collection in the draw stage, select-card in the discard stage),
\* and every player id in a gract bundle the module returns is an admitted
\* player; so the module never raises and the engine never fails on a rummy
\* response.
RummyCalled ==
    /\ instance.kind = "rummy"
    /\ pc = "process"
    /\ step'.op = "process"
    /\ step'.called

C38_RummyActionsAreInTurn ==
    [][RummyCalled =>
         /\ step'.msg.type = "action" =>
              /\ step'.msg.player_id =
                     instance.player_order[instance.current_idx + 1]
              /\ step'.msg.action.type =
                     (IF instance.current_stage = 0 THEN "select-coll"
                      ELSE "select")
         /\ step'.resp.type = "gract" =>
              \A i \in 1 .. Len(step'.resp.gract_lists) :
                  step'.resp.gract_lists[i][1] \in DOMAIN players
         /\ step'.resp.type # "raise"
         /\ step'.flow # "crash"]_vars


\* The groups of the rules: at least 3 cards of the same rank, or at least 3
\* cards of one suit with consecutive ranks.
IsGroup(A) ==
    /\ Cardinality(A) >= 3
    /\ \/ \A a, b \in A : a % 100 = b % 100
       \/ /\ \A a, b \in A : a \div 100 = b \div 100
          /\ \E lo \in A : A = {lo + k : k \in 0 .. (Cardinality(A) - 1)}

RECURSIVE CanPartition(_)
CanPartition(S) ==
    \/ S = {}
    \/ \E A \in SUBSET S :
         /\ (CHOOSE x \in S : \A y \in S : x <= y) \in A
         /\ IsGroup(A)
         /\ CanPartition(S \ A)

\* The discard of the module's current player in the discard stage, which
\* runs check_hand on the cards the player keeps.
RummyDiscards ==
    /\ RummyCalled
    /\ step'.msg.type = "action"
    /\ step'.msg.player_id = instance.player_order[instance.current_idx + 1]
    /\ instance.current_stage = 1
    /\ step'.msg.action.type = "select"

HandKept ==
    Remove(instance.players[RummyAt(instance,
               instance.player_order[instance.current_idx + 1])].cards,
           Head(msgs).action.card_id)

\* C39: for every hand of 7 distinct rummy cards (ids suit*100 + rank),
\* check_hand returns true, which ends the round, if and only if the hand
\* can be partitioned into groups, each group being either at least 3 cards
\* of the same rank or at least 3 cards of one suit with consecutive ranks.
C39_CheckHandIffPartition ==
    [][(RummyDiscards /\ Len(HandKept) = 7) =>
          ((step'.resp.type = "end-round") <=> CanPartition(Range(HandKept)))
      ]_vars

\* The part of the claim that fails by itself in each direction.
AcceptedHandsPartition ==
    [][(RummyDiscards /\ Len(HandKept) = 7 /\ step'.resp.type = "end-round")
          => CanPartition(Range(HandKept))]_vars

PartitionedHandsAccepted ==
    [][(RummyDiscards /\ Len(HandKept) = 7 /\ CanPartition(Range(HandKept)))
          => step'.resp.type = "end-round"]_vars

=============================================================================
